---------------------------- MODULE Spec2Model ----------------------------
(***************************************************************************)
(* A model of the text-normalisation and retrieval core of the IR system:  *)
(* the Porter stemmer (Ass3 ir_core/stemming.py), the stopword filters     *)
(* (Ass2 ir_core/stopwords.py) and the Boolean and Vector Space searches   *)
(* (Ass3 ir_core/retrieval.py).                                            *)
(*                                                                         *)
(* A Python string is a sequence of one-character strings, so that         *)
(* lower(), strip(), split(), endswith() and slicing are computed and not  *)
(* assumed.  A float score is an integer number of units of 1/Scale.        *)
(***************************************************************************)
EXTENDS Integers, Sequences, FiniteSets, TLC

(***************************************************************************)
(* Python string primitives.                                               *)
(***************************************************************************)
UpperChars == <<"A","B","C","D","E","F","G","H","I","J","K","L","M",
                "N","O","P","Q","R","S","T","U","V","W","X","Y","Z">>
LowerChars == <<"a","b","c","d","e","f","g","h","i","j","k","l","m",
                "n","o","p","q","r","s","t","u","v","w","x","y","z">>

\* A character that a string of this module cannot hold is written as its
\* code point: "U+0253" is the one character U+0253.
\* every capital outside A-Z that str.lower() changes into one character,
\* and next the character it makes of each
OtherCapitalChars ==
    <<"À","Á","Â","Ã","Ä","Å","Æ","Ç","È","É","Ê","Ë","Ì","Í","Î","Ï","Ð","Ñ","Ò","Ó","Ô","Õ",
      "Ö","Ø","Ù","Ú","Û","Ü","Ý","Þ","U+0100","U+0102","U+0104","U+0106","U+0108","U+010A",
      "U+010C","U+010E","U+0110","U+0112","U+0114","U+0116","U+0118","U+011A","U+011C","U+011E",
      "U+0120","U+0122","U+0124","U+0126","U+0128","U+012A","U+012C","U+012E","U+0132","U+0134",
      "U+0136","U+0139","U+013B","U+013D","U+013F","U+0141","U+0143","U+0145","U+0147","U+014A",
      "U+014C","U+014E","U+0150","U+0152","U+0154","U+0156","U+0158","U+015A","U+015C","U+015E",
      "U+0160","U+0162","U+0164","U+0166","U+0168","U+016A","U+016C","U+016E","U+0170","U+0172",
      "U+0174","U+0176","U+0178","U+0179","U+017B","U+017D","Ɓ","Ƃ","Ƅ","Ɔ","Ƈ","Ɖ","Ɗ","Ƌ","Ǝ",
      "Ə","Ɛ","Ƒ","Ɠ","Ɣ","Ɩ","Ɨ","Ƙ","Ɯ","Ɲ","Ɵ","Ơ","Ƣ","Ƥ","Ʀ","Ƨ","Ʃ","Ƭ","Ʈ","Ư","Ʊ","Ʋ",
      "Ƴ","Ƶ","Ʒ","Ƹ","Ƽ","Ǆ","ǅ","Ǉ","ǈ","Ǌ","ǋ","Ǎ","Ǐ","Ǒ","Ǔ","Ǖ","Ǘ","Ǚ","Ǜ","Ǟ","Ǡ","Ǣ",
      "Ǥ","Ǧ","Ǩ","Ǫ","Ǭ","Ǯ","Ǳ","ǲ","Ǵ","Ƕ","Ƿ","Ǹ","Ǻ","Ǽ","Ǿ","U+0200","U+0202","U+0204",
      "U+0206","U+0208","U+020A","U+020C","U+020E","U+0210","U+0212","U+0214","U+0216","U+0218",
      "U+021A","U+021C","U+021E","U+0220","U+0222","U+0224","U+0226","U+0228","U+022A","U+022C",
      "U+022E","U+0230","U+0232","U+023A","U+023B","U+023D","U+023E","U+0241","U+0243","U+0244",
      "U+0245","U+0246","U+0248","U+024A","U+024C","U+024E","U+0370","U+0372","U+0376","U+037F",
      "Ά","Έ","Ή","Ί","Ό","Ύ","Ώ","Α","Β","Γ","Δ","Ε","Ζ","Η","Θ","Ι","Κ","Λ","Μ","Ν","Ξ","Ο",
      "Π","Ρ","Σ","Τ","Υ","Φ","Χ","Ψ","Ω","Ϊ","Ϋ","Ϗ","Ϙ","Ϛ","Ϝ","Ϟ","Ϡ","Ϣ","Ϥ","Ϧ","Ϩ","Ϫ",
      "Ϭ","Ϯ","ϴ","Ϸ","Ϲ","Ϻ","Ͻ","Ͼ","Ͽ","U+0400","U+0401","U+0402","U+0403","U+0404","U+0405",
      "U+0406","U+0407","U+0408","U+0409","U+040A","U+040B","U+040C","U+040D","U+040E","U+040F",
      "U+0410","U+0411","U+0412","U+0413","U+0414","U+0415","U+0416","U+0417","U+0418","U+0419",
      "U+041A","U+041B","U+041C","U+041D","U+041E","U+041F","U+0420","U+0421","U+0422","U+0423",
      "U+0424","U+0425","U+0426","U+0427","U+0428","U+0429","U+042A","U+042B","U+042C","U+042D",
      "U+042E","U+042F","U+0460","U+0462","U+0464","U+0466","U+0468","U+046A","U+046C","U+046E",
      "U+0470","U+0472","U+0474","U+0476","U+0478","U+047A","U+047C","U+047E","Ҁ","Ҋ","Ҍ","Ҏ",
      "Ґ","Ғ","Ҕ","Җ","Ҙ","Қ","Ҝ","Ҟ","Ҡ","Ң","Ҥ","Ҧ","Ҩ","Ҫ","Ҭ","Ү","Ұ","Ҳ","Ҵ","Ҷ","Ҹ","Һ",
      "Ҽ","Ҿ","Ӏ","Ӂ","Ӄ","Ӆ","Ӈ","Ӊ","Ӌ","Ӎ","Ӑ","Ӓ","Ӕ","Ӗ","Ә","Ӛ","Ӝ","Ӟ","Ӡ","Ӣ","Ӥ","Ӧ",
      "Ө","Ӫ","Ӭ","Ӯ","Ӱ","Ӳ","Ӵ","Ӷ","Ӹ","Ӻ","Ӽ","Ӿ","U+0500","U+0502","U+0504","U+0506",
      "U+0508","U+050A","U+050C","U+050E","U+0510","U+0512","U+0514","U+0516","U+0518","U+051A",
      "U+051C","U+051E","U+0520","U+0522","U+0524","U+0526","U+0528","U+052A","U+052C","U+052E",
      "U+0531","U+0532","U+0533","U+0534","U+0535","U+0536","U+0537","U+0538","U+0539","U+053A",
      "U+053B","U+053C","U+053D","U+053E","U+053F","U+0540","U+0541","U+0542","U+0543","U+0544",
      "U+0545","U+0546","U+0547","U+0548","U+0549","U+054A","U+054B","U+054C","U+054D","U+054E",
      "U+054F","U+0550","U+0551","U+0552","U+0553","U+0554","U+0555","U+0556","Ⴀ","Ⴁ","Ⴂ","Ⴃ",
      "Ⴄ","Ⴅ","Ⴆ","Ⴇ","Ⴈ","Ⴉ","Ⴊ","Ⴋ","Ⴌ","Ⴍ","Ⴎ","Ⴏ","Ⴐ","Ⴑ","Ⴒ","Ⴓ","Ⴔ","Ⴕ","Ⴖ","Ⴗ","Ⴘ","Ⴙ",
      "Ⴚ","Ⴛ","Ⴜ","Ⴝ","Ⴞ","Ⴟ","Ⴠ","Ⴡ","Ⴢ","Ⴣ","Ⴤ","Ⴥ","Ⴧ","Ⴭ","Ꭰ","Ꭱ","Ꭲ","Ꭳ","Ꭴ","Ꭵ","Ꭶ","Ꭷ",
      "Ꭸ","Ꭹ","Ꭺ","Ꭻ","Ꭼ","Ꭽ","Ꭾ","Ꭿ","Ꮀ","Ꮁ","Ꮂ","Ꮃ","Ꮄ","Ꮅ","Ꮆ","Ꮇ","Ꮈ","Ꮉ","Ꮊ","Ꮋ","Ꮌ","Ꮍ",
      "Ꮎ","Ꮏ","Ꮐ","Ꮑ","Ꮒ","Ꮓ","Ꮔ","Ꮕ","Ꮖ","Ꮗ","Ꮘ","Ꮙ","Ꮚ","Ꮛ","Ꮜ","Ꮝ","Ꮞ","Ꮟ","Ꮠ","Ꮡ","Ꮢ","Ꮣ",
      "Ꮤ","Ꮥ","Ꮦ","Ꮧ","Ꮨ","Ꮩ","Ꮪ","Ꮫ","Ꮬ","Ꮭ","Ꮮ","Ꮯ","Ꮰ","Ꮱ","Ꮲ","Ꮳ","Ꮴ","Ꮵ","Ꮶ","Ꮷ","Ꮸ","Ꮹ",
      "Ꮺ","Ꮻ","Ꮼ","Ꮽ","Ꮾ","Ꮿ","Ᏸ","Ᏹ","Ᏺ","Ᏻ","Ᏼ","Ᏽ","Ა","Ბ","Გ","Დ","Ე","Ვ","Ზ","Თ","Ი","Კ",
      "Ლ","Მ","Ნ","Ო","Პ","Ჟ","Რ","Ს","Ტ","Უ","Ფ","Ქ","Ღ","Ყ","Შ","Ჩ","Ც","Ძ","Წ","Ჭ","Ხ","Ჯ",
      "Ჰ","Ჱ","Ჲ","Ჳ","Ჴ","Ჵ","Ჶ","Ჷ","Ჸ","Ჹ","Ჺ","Ჽ","Ჾ","Ჿ","U+1E00","U+1E02","U+1E04",
      "U+1E06","U+1E08","U+1E0A","U+1E0C","U+1E0E","U+1E10","U+1E12","U+1E14","U+1E16","U+1E18",
      "U+1E1A","U+1E1C","U+1E1E","U+1E20","U+1E22","U+1E24","U+1E26","U+1E28","U+1E2A","U+1E2C",
      "U+1E2E","U+1E30","U+1E32","U+1E34","U+1E36","U+1E38","U+1E3A","U+1E3C","U+1E3E","U+1E40",
      "U+1E42","U+1E44","U+1E46","U+1E48","U+1E4A","U+1E4C","U+1E4E","U+1E50","U+1E52","U+1E54",
      "U+1E56","U+1E58","U+1E5A","U+1E5C","U+1E5E","U+1E60","U+1E62","U+1E64","U+1E66","U+1E68",
      "U+1E6A","U+1E6C","U+1E6E","U+1E70","U+1E72","U+1E74","U+1E76","U+1E78","U+1E7A","U+1E7C",
      "U+1E7E","Ẁ","Ẃ","Ẅ","Ẇ","Ẉ","Ẋ","Ẍ","Ẏ","Ẑ","Ẓ","Ẕ","ẞ","Ạ","Ả","Ấ","Ầ","Ẩ","Ẫ","Ậ","Ắ",
      "Ằ","Ẳ","Ẵ","Ặ","Ẹ","Ẻ","Ẽ","Ế","Ề","Ể","Ễ","Ệ","Ỉ","Ị","Ọ","Ỏ","Ố","Ồ","Ổ","Ỗ","Ộ","Ớ",
      "Ờ","Ở","Ỡ","Ợ","Ụ","Ủ","Ứ","Ừ","Ử","Ữ","Ự","Ỳ","Ỵ","Ỷ","Ỹ","Ỻ","Ỽ","Ỿ","U+1F08","U+1F09",
      "U+1F0A","U+1F0B","U+1F0C","U+1F0D","U+1F0E","U+1F0F","U+1F18","U+1F19","U+1F1A","U+1F1B",
      "U+1F1C","U+1F1D","U+1F28","U+1F29","U+1F2A","U+1F2B","U+1F2C","U+1F2D","U+1F2E","U+1F2F",
      "U+1F38","U+1F39","U+1F3A","U+1F3B","U+1F3C","U+1F3D","U+1F3E","U+1F3F","U+1F48","U+1F49",
      "U+1F4A","U+1F4B","U+1F4C","U+1F4D","U+1F59","U+1F5B","U+1F5D","U+1F5F","U+1F68","U+1F69",
      "U+1F6A","U+1F6B","U+1F6C","U+1F6D","U+1F6E","U+1F6F","ᾈ","ᾉ","ᾊ","ᾋ","ᾌ","ᾍ","ᾎ","ᾏ","ᾘ",
      "ᾙ","ᾚ","ᾛ","ᾜ","ᾝ","ᾞ","ᾟ","ᾨ","ᾩ","ᾪ","ᾫ","ᾬ","ᾭ","ᾮ","ᾯ","Ᾰ","Ᾱ","Ὰ","Ά","ᾼ","Ὲ","Έ",
      "Ὴ","Ή","ῌ","Ῐ","Ῑ","Ὶ","Ί","Ῠ","Ῡ","Ὺ","Ύ","Ῥ","Ὸ","Ό","Ὼ","Ώ","ῼ","U+2126","U+212A",
      "U+212B","U+2132","U+2160","U+2161","U+2162","U+2163","U+2164","U+2165","U+2166","U+2167",
      "U+2168","U+2169","U+216A","U+216B","U+216C","U+216D","U+216E","U+216F","Ↄ","Ⓐ","Ⓑ","Ⓒ",
      "Ⓓ","Ⓔ","Ⓕ","Ⓖ","Ⓗ","Ⓘ","Ⓙ","Ⓚ","Ⓛ","Ⓜ","Ⓝ","Ⓞ","Ⓟ","Ⓠ","Ⓡ","Ⓢ","Ⓣ","Ⓤ","Ⓥ","Ⓦ","Ⓧ","Ⓨ",
      "Ⓩ","U+2C00","U+2C01","U+2C02","U+2C03","U+2C04","U+2C05","U+2C06","U+2C07","U+2C08",
      "U+2C09","U+2C0A","U+2C0B","U+2C0C","U+2C0D","U+2C0E","U+2C0F","U+2C10","U+2C11","U+2C12",
      "U+2C13","U+2C14","U+2C15","U+2C16","U+2C17","U+2C18","U+2C19","U+2C1A","U+2C1B","U+2C1C",
      "U+2C1D","U+2C1E","U+2C1F","U+2C20","U+2C21","U+2C22","U+2C23","U+2C24","U+2C25","U+2C26",
      "U+2C27","U+2C28","U+2C29","U+2C2A","U+2C2B","U+2C2C","U+2C2D","U+2C2E","U+2C2F","U+2C60",
      "U+2C62","U+2C63","U+2C64","U+2C67","U+2C69","U+2C6B","U+2C6D","U+2C6E","U+2C6F","U+2C70",
      "U+2C72","U+2C75","U+2C7E","U+2C7F","Ⲁ","Ⲃ","Ⲅ","Ⲇ","Ⲉ","Ⲋ","Ⲍ","Ⲏ","Ⲑ","Ⲓ","Ⲕ","Ⲗ","Ⲙ",
      "Ⲛ","Ⲝ","Ⲟ","Ⲡ","Ⲣ","Ⲥ","Ⲧ","Ⲩ","Ⲫ","Ⲭ","Ⲯ","Ⲱ","Ⲳ","Ⲵ","Ⲷ","Ⲹ","Ⲻ","Ⲽ","Ⲿ","Ⳁ","Ⳃ","Ⳅ",
      "Ⳇ","Ⳉ","Ⳋ","Ⳍ","Ⳏ","Ⳑ","Ⳓ","Ⳕ","Ⳗ","Ⳙ","Ⳛ","Ⳝ","Ⳟ","Ⳡ","Ⳣ","Ⳬ","Ⳮ","Ⳳ","U+A640","U+A642",
      "U+A644","U+A646","U+A648","U+A64A","U+A64C","U+A64E","U+A650","U+A652","U+A654","U+A656",
      "U+A658","U+A65A","U+A65C","U+A65E","U+A660","U+A662","U+A664","U+A666","U+A668","U+A66A",
      "U+A66C","Ꚁ","Ꚃ","Ꚅ","Ꚇ","Ꚉ","Ꚋ","Ꚍ","Ꚏ","Ꚑ","Ꚓ","Ꚕ","Ꚗ","Ꚙ","Ꚛ","U+A722","U+A724",
      "U+A726","U+A728","U+A72A","U+A72C","U+A72E","U+A732","U+A734","U+A736","U+A738","U+A73A",
      "U+A73C","U+A73E","U+A740","U+A742","U+A744","U+A746","U+A748","U+A74A","U+A74C","U+A74E",
      "U+A750","U+A752","U+A754","U+A756","U+A758","U+A75A","U+A75C","U+A75E","U+A760","U+A762",
      "U+A764","U+A766","U+A768","U+A76A","U+A76C","U+A76E","U+A779","U+A77B","U+A77D","U+A77E",
      "Ꞁ","Ꞃ","Ꞅ","Ꞇ","Ꞌ","Ɥ","Ꞑ","Ꞓ","Ꞗ","Ꞙ","Ꞛ","Ꞝ","Ꞟ","Ꞡ","Ꞣ","Ꞥ","Ꞧ","Ꞩ","Ɦ","Ɜ","Ɡ","Ɬ",
      "Ɪ","Ʞ","Ʇ","Ʝ","Ꭓ","Ꞵ","Ꞷ","Ꞹ","Ꞻ","Ꞽ","Ꞿ","Ꟁ","Ꟃ","Ꞔ","Ʂ","Ᶎ","Ꟈ","Ꟊ","Ꟑ","Ꟗ","Ꟙ","Ꟶ",
      "U+FF21","U+FF22","U+FF23","U+FF24","U+FF25","U+FF26","U+FF27","U+FF28","U+FF29","U+FF2A",
      "U+FF2B","U+FF2C","U+FF2D","U+FF2E","U+FF2F","U+FF30","U+FF31","U+FF32","U+FF33","U+FF34",
      "U+FF35","U+FF36","U+FF37","U+FF38","U+FF39","U+FF3A","U+10400","U+10401","U+10402",
      "U+10403","U+10404","U+10405","U+10406","U+10407","U+10408","U+10409","U+1040A","U+1040B",
      "U+1040C","U+1040D","U+1040E","U+1040F","U+10410","U+10411","U+10412","U+10413","U+10414",
      "U+10415","U+10416","U+10417","U+10418","U+10419","U+1041A","U+1041B","U+1041C","U+1041D",
      "U+1041E","U+1041F","U+10420","U+10421","U+10422","U+10423","U+10424","U+10425","U+10426",
      "U+10427","U+104B0","U+104B1","U+104B2","U+104B3","U+104B4","U+104B5","U+104B6","U+104B7",
      "U+104B8","U+104B9","U+104BA","U+104BB","U+104BC","U+104BD","U+104BE","U+104BF","U+104C0",
      "U+104C1","U+104C2","U+104C3","U+104C4","U+104C5","U+104C6","U+104C7","U+104C8","U+104C9",
      "U+104CA","U+104CB","U+104CC","U+104CD","U+104CE","U+104CF","U+104D0","U+104D1","U+104D2",
      "U+104D3","U+10570","U+10571","U+10572","U+10573","U+10574","U+10575","U+10576","U+10577",
      "U+10578","U+10579","U+1057A","U+1057C","U+1057D","U+1057E","U+1057F","U+10580","U+10581",
      "U+10582","U+10583","U+10584","U+10585","U+10586","U+10587","U+10588","U+10589","U+1058A",
      "U+1058C","U+1058D","U+1058E","U+1058F","U+10590","U+10591","U+10592","U+10594","U+10595",
      "U+10C80","U+10C81","U+10C82","U+10C83","U+10C84","U+10C85","U+10C86","U+10C87","U+10C88",
      "U+10C89","U+10C8A","U+10C8B","U+10C8C","U+10C8D","U+10C8E","U+10C8F","U+10C90","U+10C91",
      "U+10C92","U+10C93","U+10C94","U+10C95","U+10C96","U+10C97","U+10C98","U+10C99","U+10C9A",
      "U+10C9B","U+10C9C","U+10C9D","U+10C9E","U+10C9F","U+10CA0","U+10CA1","U+10CA2","U+10CA3",
      "U+10CA4","U+10CA5","U+10CA6","U+10CA7","U+10CA8","U+10CA9","U+10CAA","U+10CAB","U+10CAC",
      "U+10CAD","U+10CAE","U+10CAF","U+10CB0","U+10CB1","U+10CB2","U+118A0","U+118A1","U+118A2",
      "U+118A3","U+118A4","U+118A5","U+118A6","U+118A7","U+118A8","U+118A9","U+118AA","U+118AB",
      "U+118AC","U+118AD","U+118AE","U+118AF","U+118B0","U+118B1","U+118B2","U+118B3","U+118B4",
      "U+118B5","U+118B6","U+118B7","U+118B8","U+118B9","U+118BA","U+118BB","U+118BC","U+118BD",
      "U+118BE","U+118BF","U+16E40","U+16E41","U+16E42","U+16E43","U+16E44","U+16E45","U+16E46",
      "U+16E47","U+16E48","U+16E49","U+16E4A","U+16E4B","U+16E4C","U+16E4D","U+16E4E","U+16E4F",
      "U+16E50","U+16E51","U+16E52","U+16E53","U+16E54","U+16E55","U+16E56","U+16E57","U+16E58",
      "U+16E59","U+16E5A","U+16E5B","U+16E5C","U+16E5D","U+16E5E","U+16E5F","U+1E900","U+1E901",
      "U+1E902","U+1E903","U+1E904","U+1E905","U+1E906","U+1E907","U+1E908","U+1E909","U+1E90A",
      "U+1E90B","U+1E90C","U+1E90D","U+1E90E","U+1E90F","U+1E910","U+1E911","U+1E912","U+1E913",
      "U+1E914","U+1E915","U+1E916","U+1E917","U+1E918","U+1E919","U+1E91A","U+1E91B","U+1E91C",
      "U+1E91D","U+1E91E","U+1E91F","U+1E920","U+1E921">>

OtherSmallChars ==
    <<"à","á","â","ã","ä","å","æ","ç","è","é","ê","ë","ì","í","î","ï","ð","ñ","ò","ó","ô","õ",
      "ö","ø","ù","ú","û","ü","ý","þ","U+0101","U+0103","U+0105","U+0107","U+0109","U+010B",
      "U+010D","U+010F","U+0111","U+0113","U+0115","U+0117","U+0119","U+011B","U+011D","U+011F",
      "U+0121","U+0123","U+0125","U+0127","U+0129","U+012B","U+012D","U+012F","U+0133","U+0135",
      "U+0137","U+013A","U+013C","U+013E","U+0140","U+0142","U+0144","U+0146","U+0148","U+014B",
      "U+014D","U+014F","U+0151","U+0153","U+0155","U+0157","U+0159","U+015B","U+015D","U+015F",
      "U+0161","U+0163","U+0165","U+0167","U+0169","U+016B","U+016D","U+016F","U+0171","U+0173",
      "U+0175","U+0177","ÿ","U+017A","U+017C","U+017E","U+0253","ƃ","ƅ","U+0254","ƈ","U+0256",
      "U+0257","ƌ","ǝ","U+0259","U+025B","ƒ","U+0260","U+0263","U+0269","U+0268","ƙ","U+026F",
      "U+0272","U+0275","ơ","ƣ","ƥ","ʀ","ƨ","ʃ","ƭ","ʈ","ư","ʊ","ʋ","ƴ","ƶ","ʒ","ƹ","ƽ","ǆ","ǆ",
      "ǉ","ǉ","ǌ","ǌ","ǎ","ǐ","ǒ","ǔ","ǖ","ǘ","ǚ","ǜ","ǟ","ǡ","ǣ","ǥ","ǧ","ǩ","ǫ","ǭ","ǯ","ǳ",
      "ǳ","ǵ","ƕ","ƿ","ǹ","ǻ","ǽ","ǿ","U+0201","U+0203","U+0205","U+0207","U+0209","U+020B",
      "U+020D","U+020F","U+0211","U+0213","U+0215","U+0217","U+0219","U+021B","U+021D","U+021F",
      "ƞ","U+0223","U+0225","U+0227","U+0229","U+022B","U+022D","U+022F","U+0231","U+0233",
      "U+2C65","U+023C","ƚ","U+2C66","U+0242","ƀ","ʉ","ʌ","U+0247","U+0249","U+024B","U+024D",
      "U+024F","U+0371","U+0373","U+0377","ϳ","ά","έ","ή","ί","ό","ύ","ώ","α","β","γ","δ","ε",
      "ζ","η","θ","ι","κ","λ","μ","ν","ξ","ο","π","ρ","σ","τ","υ","φ","χ","ψ","ω","ϊ","ϋ","ϗ",
      "ϙ","ϛ","ϝ","ϟ","ϡ","ϣ","ϥ","ϧ","ϩ","ϫ","ϭ","ϯ","θ","ϸ","ϲ","ϻ","U+037B","U+037C",
      "U+037D","U+0450","U+0451","U+0452","U+0453","U+0454","U+0455","U+0456","U+0457","U+0458",
      "U+0459","U+045A","U+045B","U+045C","U+045D","U+045E","U+045F","U+0430","U+0431","U+0432",
      "U+0433","U+0434","U+0435","U+0436","U+0437","U+0438","U+0439","U+043A","U+043B","U+043C",
      "U+043D","U+043E","U+043F","U+0440","U+0441","U+0442","U+0443","U+0444","U+0445","U+0446",
      "U+0447","U+0448","U+0449","U+044A","U+044B","U+044C","U+044D","U+044E","U+044F","U+0461",
      "U+0463","U+0465","U+0467","U+0469","U+046B","U+046D","U+046F","U+0471","U+0473","U+0475",
      "U+0477","U+0479","U+047B","U+047D","U+047F","ҁ","ҋ","ҍ","ҏ","ґ","ғ","ҕ","җ","ҙ","қ","ҝ",
      "ҟ","ҡ","ң","ҥ","ҧ","ҩ","ҫ","ҭ","ү","ұ","ҳ","ҵ","ҷ","ҹ","һ","ҽ","ҿ","ӏ","ӂ","ӄ","ӆ","ӈ",
      "ӊ","ӌ","ӎ","ӑ","ӓ","ӕ","ӗ","ә","ӛ","ӝ","ӟ","ӡ","ӣ","ӥ","ӧ","ө","ӫ","ӭ","ӯ","ӱ","ӳ","ӵ",
      "ӷ","ӹ","ӻ","ӽ","ӿ","U+0501","U+0503","U+0505","U+0507","U+0509","U+050B","U+050D",
      "U+050F","U+0511","U+0513","U+0515","U+0517","U+0519","U+051B","U+051D","U+051F","U+0521",
      "U+0523","U+0525","U+0527","U+0529","U+052B","U+052D","U+052F","U+0561","U+0562","U+0563",
      "U+0564","U+0565","U+0566","U+0567","U+0568","U+0569","U+056A","U+056B","U+056C","U+056D",
      "U+056E","U+056F","U+0570","U+0571","U+0572","U+0573","U+0574","U+0575","U+0576","U+0577",
      "U+0578","U+0579","U+057A","U+057B","U+057C","U+057D","U+057E","U+057F","ր","ց","ւ","փ",
      "ք","օ","ֆ","U+2D00","U+2D01","U+2D02","U+2D03","U+2D04","U+2D05","U+2D06","U+2D07",
      "U+2D08","U+2D09","U+2D0A","U+2D0B","U+2D0C","U+2D0D","U+2D0E","U+2D0F","U+2D10","U+2D11",
      "U+2D12","U+2D13","U+2D14","U+2D15","U+2D16","U+2D17","U+2D18","U+2D19","U+2D1A","U+2D1B",
      "U+2D1C","U+2D1D","U+2D1E","U+2D1F","U+2D20","U+2D21","U+2D22","U+2D23","U+2D24","U+2D25",
      "U+2D27","U+2D2D","U+AB70","U+AB71","U+AB72","U+AB73","U+AB74","U+AB75","U+AB76","U+AB77",
      "U+AB78","U+AB79","U+AB7A","U+AB7B","U+AB7C","U+AB7D","U+AB7E","U+AB7F","ꮀ","ꮁ","ꮂ","ꮃ",
      "ꮄ","ꮅ","ꮆ","ꮇ","ꮈ","ꮉ","ꮊ","ꮋ","ꮌ","ꮍ","ꮎ","ꮏ","ꮐ","ꮑ","ꮒ","ꮓ","ꮔ","ꮕ","ꮖ","ꮗ","ꮘ","ꮙ",
      "ꮚ","ꮛ","ꮜ","ꮝ","ꮞ","ꮟ","ꮠ","ꮡ","ꮢ","ꮣ","ꮤ","ꮥ","ꮦ","ꮧ","ꮨ","ꮩ","ꮪ","ꮫ","ꮬ","ꮭ","ꮮ","ꮯ",
      "ꮰ","ꮱ","ꮲ","ꮳ","ꮴ","ꮵ","ꮶ","ꮷ","ꮸ","ꮹ","ꮺ","ꮻ","ꮼ","ꮽ","ꮾ","ꮿ","ᏸ","ᏹ","ᏺ","ᏻ","ᏼ","ᏽ",
      "ა","ბ","გ","დ","ე","ვ","ზ","თ","ი","კ","ლ","მ","ნ","ო","პ","ჟ","რ","ს","ტ","უ","ფ","ქ",
      "ღ","ყ","შ","ჩ","ც","ძ","წ","ჭ","ხ","ჯ","ჰ","ჱ","ჲ","ჳ","ჴ","ჵ","ჶ","ჷ","ჸ","ჹ","ჺ","ჽ",
      "ჾ","ჿ","U+1E01","U+1E03","U+1E05","U+1E07","U+1E09","U+1E0B","U+1E0D","U+1E0F","U+1E11",
      "U+1E13","U+1E15","U+1E17","U+1E19","U+1E1B","U+1E1D","U+1E1F","U+1E21","U+1E23","U+1E25",
      "U+1E27","U+1E29","U+1E2B","U+1E2D","U+1E2F","U+1E31","U+1E33","U+1E35","U+1E37","U+1E39",
      "U+1E3B","U+1E3D","U+1E3F","U+1E41","U+1E43","U+1E45","U+1E47","U+1E49","U+1E4B","U+1E4D",
      "U+1E4F","U+1E51","U+1E53","U+1E55","U+1E57","U+1E59","U+1E5B","U+1E5D","U+1E5F","U+1E61",
      "U+1E63","U+1E65","U+1E67","U+1E69","U+1E6B","U+1E6D","U+1E6F","U+1E71","U+1E73","U+1E75",
      "U+1E77","U+1E79","U+1E7B","U+1E7D","U+1E7F","ẁ","ẃ","ẅ","ẇ","ẉ","ẋ","ẍ","ẏ","ẑ","ẓ","ẕ",
      "ß","ạ","ả","ấ","ầ","ẩ","ẫ","ậ","ắ","ằ","ẳ","ẵ","ặ","ẹ","ẻ","ẽ","ế","ề","ể","ễ","ệ","ỉ",
      "ị","ọ","ỏ","ố","ồ","ổ","ỗ","ộ","ớ","ờ","ở","ỡ","ợ","ụ","ủ","ứ","ừ","ử","ữ","ự","ỳ","ỵ",
      "ỷ","ỹ","ỻ","ỽ","ỿ","U+1F00","U+1F01","U+1F02","U+1F03","U+1F04","U+1F05","U+1F06",
      "U+1F07","U+1F10","U+1F11","U+1F12","U+1F13","U+1F14","U+1F15","U+1F20","U+1F21","U+1F22",
      "U+1F23","U+1F24","U+1F25","U+1F26","U+1F27","U+1F30","U+1F31","U+1F32","U+1F33","U+1F34",
      "U+1F35","U+1F36","U+1F37","U+1F40","U+1F41","U+1F42","U+1F43","U+1F44","U+1F45","U+1F51",
      "U+1F53","U+1F55","U+1F57","U+1F60","U+1F61","U+1F62","U+1F63","U+1F64","U+1F65","U+1F66",
      "U+1F67","ᾀ","ᾁ","ᾂ","ᾃ","ᾄ","ᾅ","ᾆ","ᾇ","ᾐ","ᾑ","ᾒ","ᾓ","ᾔ","ᾕ","ᾖ","ᾗ","ᾠ","ᾡ","ᾢ","ᾣ",
      "ᾤ","ᾥ","ᾦ","ᾧ","ᾰ","ᾱ","U+1F70","U+1F71","ᾳ","U+1F72","U+1F73","U+1F74","U+1F75","ῃ","ῐ",
      "ῑ","U+1F76","U+1F77","ῠ","ῡ","U+1F7A","U+1F7B","ῥ","U+1F78","U+1F79","U+1F7C","U+1F7D",
      "ῳ","ω","k","å","U+214E","U+2170","U+2171","U+2172","U+2173","U+2174","U+2175","U+2176",
      "U+2177","U+2178","U+2179","U+217A","U+217B","U+217C","U+217D","U+217E","U+217F","ↄ","ⓐ",
      "ⓑ","ⓒ","ⓓ","ⓔ","ⓕ","ⓖ","ⓗ","ⓘ","ⓙ","ⓚ","ⓛ","ⓜ","ⓝ","ⓞ","ⓟ","ⓠ","ⓡ","ⓢ","ⓣ","ⓤ","ⓥ","ⓦ",
      "ⓧ","ⓨ","ⓩ","U+2C30","U+2C31","U+2C32","U+2C33","U+2C34","U+2C35","U+2C36","U+2C37",
      "U+2C38","U+2C39","U+2C3A","U+2C3B","U+2C3C","U+2C3D","U+2C3E","U+2C3F","U+2C40","U+2C41",
      "U+2C42","U+2C43","U+2C44","U+2C45","U+2C46","U+2C47","U+2C48","U+2C49","U+2C4A","U+2C4B",
      "U+2C4C","U+2C4D","U+2C4E","U+2C4F","U+2C50","U+2C51","U+2C52","U+2C53","U+2C54","U+2C55",
      "U+2C56","U+2C57","U+2C58","U+2C59","U+2C5A","U+2C5B","U+2C5C","U+2C5D","U+2C5E","U+2C5F",
      "U+2C61","U+026B","U+1D7D","U+027D","U+2C68","U+2C6A","U+2C6C","U+0251","U+0271","U+0250",
      "U+0252","U+2C73","U+2C76","U+023F","U+0240","ⲁ","ⲃ","ⲅ","ⲇ","ⲉ","ⲋ","ⲍ","ⲏ","ⲑ","ⲓ","ⲕ",
      "ⲗ","ⲙ","ⲛ","ⲝ","ⲟ","ⲡ","ⲣ","ⲥ","ⲧ","ⲩ","ⲫ","ⲭ","ⲯ","ⲱ","ⲳ","ⲵ","ⲷ","ⲹ","ⲻ","ⲽ","ⲿ","ⳁ",
      "ⳃ","ⳅ","ⳇ","ⳉ","ⳋ","ⳍ","ⳏ","ⳑ","ⳓ","ⳕ","ⳗ","ⳙ","ⳛ","ⳝ","ⳟ","ⳡ","ⳣ","ⳬ","ⳮ","ⳳ","U+A641",
      "U+A643","U+A645","U+A647","U+A649","U+A64B","U+A64D","U+A64F","U+A651","U+A653","U+A655",
      "U+A657","U+A659","U+A65B","U+A65D","U+A65F","U+A661","U+A663","U+A665","U+A667","U+A669",
      "U+A66B","U+A66D","ꚁ","ꚃ","ꚅ","ꚇ","ꚉ","ꚋ","ꚍ","ꚏ","ꚑ","ꚓ","ꚕ","ꚗ","ꚙ","ꚛ","U+A723",
      "U+A725","U+A727","U+A729","U+A72B","U+A72D","U+A72F","U+A733","U+A735","U+A737","U+A739",
      "U+A73B","U+A73D","U+A73F","U+A741","U+A743","U+A745","U+A747","U+A749","U+A74B","U+A74D",
      "U+A74F","U+A751","U+A753","U+A755","U+A757","U+A759","U+A75B","U+A75D","U+A75F","U+A761",
      "U+A763","U+A765","U+A767","U+A769","U+A76B","U+A76D","U+A76F","U+A77A","U+A77C","U+1D79",
      "U+A77F","ꞁ","ꞃ","ꞅ","ꞇ","ꞌ","U+0265","ꞑ","ꞓ","ꞗ","ꞙ","ꞛ","ꞝ","ꞟ","ꞡ","ꞣ","ꞥ","ꞧ","ꞩ",
      "U+0266","U+025C","U+0261","U+026C","U+026A","ʞ","ʇ","ʝ","U+AB53","ꞵ","ꞷ","ꞹ","ꞻ","ꞽ","ꞿ",
      "ꟁ","ꟃ","ꞔ","ʂ","ᶎ","ꟈ","ꟊ","ꟑ","ꟗ","ꟙ","ꟶ","U+FF41","U+FF42","U+FF43","U+FF44","U+FF45",
      "U+FF46","U+FF47","U+FF48","U+FF49","U+FF4A","U+FF4B","U+FF4C","U+FF4D","U+FF4E","U+FF4F",
      "U+FF50","U+FF51","U+FF52","U+FF53","U+FF54","U+FF55","U+FF56","U+FF57","U+FF58","U+FF59",
      "U+FF5A","U+10428","U+10429","U+1042A","U+1042B","U+1042C","U+1042D","U+1042E","U+1042F",
      "U+10430","U+10431","U+10432","U+10433","U+10434","U+10435","U+10436","U+10437","U+10438",
      "U+10439","U+1043A","U+1043B","U+1043C","U+1043D","U+1043E","U+1043F","U+10440","U+10441",
      "U+10442","U+10443","U+10444","U+10445","U+10446","U+10447","U+10448","U+10449","U+1044A",
      "U+1044B","U+1044C","U+1044D","U+1044E","U+1044F","U+104D8","U+104D9","U+104DA","U+104DB",
      "U+104DC","U+104DD","U+104DE","U+104DF","U+104E0","U+104E1","U+104E2","U+104E3","U+104E4",
      "U+104E5","U+104E6","U+104E7","U+104E8","U+104E9","U+104EA","U+104EB","U+104EC","U+104ED",
      "U+104EE","U+104EF","U+104F0","U+104F1","U+104F2","U+104F3","U+104F4","U+104F5","U+104F6",
      "U+104F7","U+104F8","U+104F9","U+104FA","U+104FB","U+10597","U+10598","U+10599","U+1059A",
      "U+1059B","U+1059C","U+1059D","U+1059E","U+1059F","U+105A0","U+105A1","U+105A3","U+105A4",
      "U+105A5","U+105A6","U+105A7","U+105A8","U+105A9","U+105AA","U+105AB","U+105AC","U+105AD",
      "U+105AE","U+105AF","U+105B0","U+105B1","U+105B3","U+105B4","U+105B5","U+105B6","U+105B7",
      "U+105B8","U+105B9","U+105BB","U+105BC","U+10CC0","U+10CC1","U+10CC2","U+10CC3","U+10CC4",
      "U+10CC5","U+10CC6","U+10CC7","U+10CC8","U+10CC9","U+10CCA","U+10CCB","U+10CCC","U+10CCD",
      "U+10CCE","U+10CCF","U+10CD0","U+10CD1","U+10CD2","U+10CD3","U+10CD4","U+10CD5","U+10CD6",
      "U+10CD7","U+10CD8","U+10CD9","U+10CDA","U+10CDB","U+10CDC","U+10CDD","U+10CDE","U+10CDF",
      "U+10CE0","U+10CE1","U+10CE2","U+10CE3","U+10CE4","U+10CE5","U+10CE6","U+10CE7","U+10CE8",
      "U+10CE9","U+10CEA","U+10CEB","U+10CEC","U+10CED","U+10CEE","U+10CEF","U+10CF0","U+10CF1",
      "U+10CF2","U+118C0","U+118C1","U+118C2","U+118C3","U+118C4","U+118C5","U+118C6","U+118C7",
      "U+118C8","U+118C9","U+118CA","U+118CB","U+118CC","U+118CD","U+118CE","U+118CF","U+118D0",
      "U+118D1","U+118D2","U+118D3","U+118D4","U+118D5","U+118D6","U+118D7","U+118D8","U+118D9",
      "U+118DA","U+118DB","U+118DC","U+118DD","U+118DE","U+118DF","U+16E60","U+16E61","U+16E62",
      "U+16E63","U+16E64","U+16E65","U+16E66","U+16E67","U+16E68","U+16E69","U+16E6A","U+16E6B",
      "U+16E6C","U+16E6D","U+16E6E","U+16E6F","U+16E70","U+16E71","U+16E72","U+16E73","U+16E74",
      "U+16E75","U+16E76","U+16E77","U+16E78","U+16E79","U+16E7A","U+16E7B","U+16E7C","U+16E7D",
      "U+16E7E","U+16E7F","U+1E922","U+1E923","U+1E924","U+1E925","U+1E926","U+1E927","U+1E928",
      "U+1E929","U+1E92A","U+1E92B","U+1E92C","U+1E92D","U+1E92E","U+1E92F","U+1E930","U+1E931",
      "U+1E932","U+1E933","U+1E934","U+1E935","U+1E936","U+1E937","U+1E938","U+1E939","U+1E93A",
      "U+1E93B","U+1E93C","U+1E93D","U+1E93E","U+1E93F","U+1E940","U+1E941","U+1E942","U+1E943">>

CapitalChars == UpperChars \o OtherCapitalChars
SmallChars == LowerChars \o OtherSmallChars

\* the characters the final-sigma rule of str.lower() calls cased and does
\* not skip, apart from the capitals above and what they are lowered to
OtherCasedChars ==
    <<"ª","µ","º","U+0130","U+0131","U+0138","U+0149","U+017F","ƍ","ƛ","ƪ","ƫ","ƺ","ƾ","ǰ",
      "U+0221","U+0234","U+0235","U+0236","U+0237","U+0238","U+0239","U+0255","U+0258","U+025A",
      "U+025D","U+025E","U+025F","U+0262","U+0264","U+0267","U+026D","U+026E","U+0270","U+0273",
      "U+0274","U+0276","U+0277","U+0278","U+0279","U+027A","U+027B","U+027C","U+027E","U+027F",
      "ʁ","ʄ","ʅ","ʆ","ʍ","ʎ","ʏ","ʐ","ʑ","ʓ","ʕ","ʖ","ʗ","ʘ","ʙ","ʚ","ʛ","ʜ","ʟ","ʠ","ʡ","ʢ",
      "ʣ","ʤ","ʥ","ʦ","ʧ","ʨ","ʩ","ʪ","ʫ","ʬ","ʭ","ʮ","ʯ","ΐ","ΰ","ς","ϐ","ϑ","ϒ","ϓ","ϔ","ϕ",
      "ϖ","ϰ","ϱ","ϵ","ϼ","U+0560","և","ֈ","ᲀ","ᲁ","ᲂ","ᲃ","ᲄ","ᲅ","ᲆ","ᲇ","ᲈ","U+1D00",
      "U+1D01","U+1D02","U+1D03","U+1D04","U+1D05","U+1D06","U+1D07","U+1D08","U+1D09","U+1D0A",
      "U+1D0B","U+1D0C","U+1D0D","U+1D0E","U+1D0F","U+1D10","U+1D11","U+1D12","U+1D13","U+1D14",
      "U+1D15","U+1D16","U+1D17","U+1D18","U+1D19","U+1D1A","U+1D1B","U+1D1C","U+1D1D","U+1D1E",
      "U+1D1F","U+1D20","U+1D21","U+1D22","U+1D23","U+1D24","U+1D25","U+1D26","U+1D27","U+1D28",
      "U+1D29","U+1D2A","U+1D2B","U+1D6B","U+1D6C","U+1D6D","U+1D6E","U+1D6F","U+1D70","U+1D71",
      "U+1D72","U+1D73","U+1D74","U+1D75","U+1D76","U+1D77","U+1D7A","U+1D7B","U+1D7C","U+1D7E",
      "U+1D7F","ᶀ","ᶁ","ᶂ","ᶃ","ᶄ","ᶅ","ᶆ","ᶇ","ᶈ","ᶉ","ᶊ","ᶋ","ᶌ","ᶍ","ᶏ","ᶐ","ᶑ","ᶒ","ᶓ","ᶔ",
      "ᶕ","ᶖ","ᶗ","ᶘ","ᶙ","ᶚ","ẖ","ẗ","ẘ","ẙ","ẚ","ẛ","ẜ","ẝ","ẟ","U+1F50","U+1F52","U+1F54",
      "U+1F56","ᾲ","ᾴ","ᾶ","ᾷ","ι","ῂ","ῄ","ῆ","ῇ","ῒ","ΐ","ῖ","ῗ","ῢ","ΰ","ῤ","ῦ","ῧ","ῲ","ῴ",
      "ῶ","ῷ","U+2102","U+2107","U+210A","U+210B","U+210C","U+210D","U+210E","U+210F","U+2110",
      "U+2111","U+2112","U+2113","U+2115","U+2119","U+211A","U+211B","U+211C","U+211D","U+2124",
      "U+2128","U+212C","U+212D","U+212F","U+2130","U+2131","U+2133","U+2134","U+2139","U+213C",
      "U+213D","U+213E","U+213F","U+2145","U+2146","U+2147","U+2148","U+2149","U+2C71","U+2C74",
      "U+2C77","U+2C78","U+2C79","U+2C7A","U+2C7B","ⳤ","U+A730","U+A731","U+A771","U+A772",
      "U+A773","U+A774","U+A775","U+A776","U+A777","U+A778","ꞎ","ꞕ","ꞯ","ꟓ","ꟕ","ꟺ","U+AB30",
      "U+AB31","U+AB32","U+AB33","U+AB34","U+AB35","U+AB36","U+AB37","U+AB38","U+AB39","U+AB3A",
      "U+AB3B","U+AB3C","U+AB3D","U+AB3E","U+AB3F","U+AB40","U+AB41","U+AB42","U+AB43","U+AB44",
      "U+AB45","U+AB46","U+AB47","U+AB48","U+AB49","U+AB4A","U+AB4B","U+AB4C","U+AB4D","U+AB4E",
      "U+AB4F","U+AB50","U+AB51","U+AB52","U+AB54","U+AB55","U+AB56","U+AB57","U+AB58","U+AB59",
      "U+AB5A","U+AB60","U+AB61","U+AB62","U+AB63","U+AB64","U+AB65","U+AB66","U+AB67","U+AB68",
      "U+FB00","U+FB01","U+FB02","U+FB03","U+FB04","U+FB05","U+FB06","U+FB13","U+FB14","U+FB15",
      "U+FB16","U+FB17","U+1D400","U+1D401","U+1D402","U+1D403","U+1D404","U+1D405","U+1D406",
      "U+1D407","U+1D408","U+1D409","U+1D40A","U+1D40B","U+1D40C","U+1D40D","U+1D40E","U+1D40F",
      "U+1D410","U+1D411","U+1D412","U+1D413","U+1D414","U+1D415","U+1D416","U+1D417","U+1D418",
      "U+1D419","U+1D41A","U+1D41B","U+1D41C","U+1D41D","U+1D41E","U+1D41F","U+1D420","U+1D421",
      "U+1D422","U+1D423","U+1D424","U+1D425","U+1D426","U+1D427","U+1D428","U+1D429","U+1D42A",
      "U+1D42B","U+1D42C","U+1D42D","U+1D42E","U+1D42F","U+1D430","U+1D431","U+1D432","U+1D433",
      "U+1D434","U+1D435","U+1D436","U+1D437","U+1D438","U+1D439","U+1D43A","U+1D43B","U+1D43C",
      "U+1D43D","U+1D43E","U+1D43F","U+1D440","U+1D441","U+1D442","U+1D443","U+1D444","U+1D445",
      "U+1D446","U+1D447","U+1D448","U+1D449","U+1D44A","U+1D44B","U+1D44C","U+1D44D","U+1D44E",
      "U+1D44F","U+1D450","U+1D451","U+1D452","U+1D453","U+1D454","U+1D456","U+1D457","U+1D458",
      "U+1D459","U+1D45A","U+1D45B","U+1D45C","U+1D45D","U+1D45E","U+1D45F","U+1D460","U+1D461",
      "U+1D462","U+1D463","U+1D464","U+1D465","U+1D466","U+1D467","U+1D468","U+1D469","U+1D46A",
      "U+1D46B","U+1D46C","U+1D46D","U+1D46E","U+1D46F","U+1D470","U+1D471","U+1D472","U+1D473",
      "U+1D474","U+1D475","U+1D476","U+1D477","U+1D478","U+1D479","U+1D47A","U+1D47B","U+1D47C",
      "U+1D47D","U+1D47E","U+1D47F","U+1D480","U+1D481","U+1D482","U+1D483","U+1D484","U+1D485",
      "U+1D486","U+1D487","U+1D488","U+1D489","U+1D48A","U+1D48B","U+1D48C","U+1D48D","U+1D48E",
      "U+1D48F","U+1D490","U+1D491","U+1D492","U+1D493","U+1D494","U+1D495","U+1D496","U+1D497",
      "U+1D498","U+1D499","U+1D49A","U+1D49B","U+1D49C","U+1D49E","U+1D49F","U+1D4A2","U+1D4A5",
      "U+1D4A6","U+1D4A9","U+1D4AA","U+1D4AB","U+1D4AC","U+1D4AE","U+1D4AF","U+1D4B0","U+1D4B1",
      "U+1D4B2","U+1D4B3","U+1D4B4","U+1D4B5","U+1D4B6","U+1D4B7","U+1D4B8","U+1D4B9","U+1D4BB",
      "U+1D4BD","U+1D4BE","U+1D4BF","U+1D4C0","U+1D4C1","U+1D4C2","U+1D4C3","U+1D4C5","U+1D4C6",
      "U+1D4C7","U+1D4C8","U+1D4C9","U+1D4CA","U+1D4CB","U+1D4CC","U+1D4CD","U+1D4CE","U+1D4CF",
      "U+1D4D0","U+1D4D1","U+1D4D2","U+1D4D3","U+1D4D4","U+1D4D5","U+1D4D6","U+1D4D7","U+1D4D8",
      "U+1D4D9","U+1D4DA","U+1D4DB","U+1D4DC","U+1D4DD","U+1D4DE","U+1D4DF","U+1D4E0","U+1D4E1",
      "U+1D4E2","U+1D4E3","U+1D4E4","U+1D4E5","U+1D4E6","U+1D4E7","U+1D4E8","U+1D4E9","U+1D4EA",
      "U+1D4EB","U+1D4EC","U+1D4ED","U+1D4EE","U+1D4EF","U+1D4F0","U+1D4F1","U+1D4F2","U+1D4F3",
      "U+1D4F4","U+1D4F5","U+1D4F6","U+1D4F7","U+1D4F8","U+1D4F9","U+1D4FA","U+1D4FB","U+1D4FC",
      "U+1D4FD","U+1D4FE","U+1D4FF","U+1D500","U+1D501","U+1D502","U+1D503","U+1D504","U+1D505",
      "U+1D507","U+1D508","U+1D509","U+1D50A","U+1D50D","U+1D50E","U+1D50F","U+1D510","U+1D511",
      "U+1D512","U+1D513","U+1D514","U+1D516","U+1D517","U+1D518","U+1D519","U+1D51A","U+1D51B",
      "U+1D51C","U+1D51E","U+1D51F","U+1D520","U+1D521","U+1D522","U+1D523","U+1D524","U+1D525",
      "U+1D526","U+1D527","U+1D528","U+1D529","U+1D52A","U+1D52B","U+1D52C","U+1D52D","U+1D52E",
      "U+1D52F","U+1D530","U+1D531","U+1D532","U+1D533","U+1D534","U+1D535","U+1D536","U+1D537",
      "U+1D538","U+1D539","U+1D53B","U+1D53C","U+1D53D","U+1D53E","U+1D540","U+1D541","U+1D542",
      "U+1D543","U+1D544","U+1D546","U+1D54A","U+1D54B","U+1D54C","U+1D54D","U+1D54E","U+1D54F",
      "U+1D550","U+1D552","U+1D553","U+1D554","U+1D555","U+1D556","U+1D557","U+1D558","U+1D559",
      "U+1D55A","U+1D55B","U+1D55C","U+1D55D","U+1D55E","U+1D55F","U+1D560","U+1D561","U+1D562",
      "U+1D563","U+1D564","U+1D565","U+1D566","U+1D567","U+1D568","U+1D569","U+1D56A","U+1D56B",
      "U+1D56C","U+1D56D","U+1D56E","U+1D56F","U+1D570","U+1D571","U+1D572","U+1D573","U+1D574",
      "U+1D575","U+1D576","U+1D577","U+1D578","U+1D579","U+1D57A","U+1D57B","U+1D57C","U+1D57D",
      "U+1D57E","U+1D57F","U+1D580","U+1D581","U+1D582","U+1D583","U+1D584","U+1D585","U+1D586",
      "U+1D587","U+1D588","U+1D589","U+1D58A","U+1D58B","U+1D58C","U+1D58D","U+1D58E","U+1D58F",
      "U+1D590","U+1D591","U+1D592","U+1D593","U+1D594","U+1D595","U+1D596","U+1D597","U+1D598",
      "U+1D599","U+1D59A","U+1D59B","U+1D59C","U+1D59D","U+1D59E","U+1D59F","U+1D5A0","U+1D5A1",
      "U+1D5A2","U+1D5A3","U+1D5A4","U+1D5A5","U+1D5A6","U+1D5A7","U+1D5A8","U+1D5A9","U+1D5AA",
      "U+1D5AB","U+1D5AC","U+1D5AD","U+1D5AE","U+1D5AF","U+1D5B0","U+1D5B1","U+1D5B2","U+1D5B3",
      "U+1D5B4","U+1D5B5","U+1D5B6","U+1D5B7","U+1D5B8","U+1D5B9","U+1D5BA","U+1D5BB","U+1D5BC",
      "U+1D5BD","U+1D5BE","U+1D5BF","U+1D5C0","U+1D5C1","U+1D5C2","U+1D5C3","U+1D5C4","U+1D5C5",
      "U+1D5C6","U+1D5C7","U+1D5C8","U+1D5C9","U+1D5CA","U+1D5CB","U+1D5CC","U+1D5CD","U+1D5CE",
      "U+1D5CF","U+1D5D0","U+1D5D1","U+1D5D2","U+1D5D3","U+1D5D4","U+1D5D5","U+1D5D6","U+1D5D7",
      "U+1D5D8","U+1D5D9","U+1D5DA","U+1D5DB","U+1D5DC","U+1D5DD","U+1D5DE","U+1D5DF","U+1D5E0",
      "U+1D5E1","U+1D5E2","U+1D5E3","U+1D5E4","U+1D5E5","U+1D5E6","U+1D5E7","U+1D5E8","U+1D5E9",
      "U+1D5EA","U+1D5EB","U+1D5EC","U+1D5ED","U+1D5EE","U+1D5EF","U+1D5F0","U+1D5F1","U+1D5F2",
      "U+1D5F3","U+1D5F4","U+1D5F5","U+1D5F6","U+1D5F7","U+1D5F8","U+1D5F9","U+1D5FA","U+1D5FB",
      "U+1D5FC","U+1D5FD","U+1D5FE","U+1D5FF","U+1D600","U+1D601","U+1D602","U+1D603","U+1D604",
      "U+1D605","U+1D606","U+1D607","U+1D608","U+1D609","U+1D60A","U+1D60B","U+1D60C","U+1D60D",
      "U+1D60E","U+1D60F","U+1D610","U+1D611","U+1D612","U+1D613","U+1D614","U+1D615","U+1D616",
      "U+1D617","U+1D618","U+1D619","U+1D61A","U+1D61B","U+1D61C","U+1D61D","U+1D61E","U+1D61F",
      "U+1D620","U+1D621","U+1D622","U+1D623","U+1D624","U+1D625","U+1D626","U+1D627","U+1D628",
      "U+1D629","U+1D62A","U+1D62B","U+1D62C","U+1D62D","U+1D62E","U+1D62F","U+1D630","U+1D631",
      "U+1D632","U+1D633","U+1D634","U+1D635","U+1D636","U+1D637","U+1D638","U+1D639","U+1D63A",
      "U+1D63B","U+1D63C","U+1D63D","U+1D63E","U+1D63F","U+1D640","U+1D641","U+1D642","U+1D643",
      "U+1D644","U+1D645","U+1D646","U+1D647","U+1D648","U+1D649","U+1D64A","U+1D64B","U+1D64C",
      "U+1D64D","U+1D64E","U+1D64F","U+1D650","U+1D651","U+1D652","U+1D653","U+1D654","U+1D655",
      "U+1D656","U+1D657","U+1D658","U+1D659","U+1D65A","U+1D65B","U+1D65C","U+1D65D","U+1D65E",
      "U+1D65F","U+1D660","U+1D661","U+1D662","U+1D663","U+1D664","U+1D665","U+1D666","U+1D667",
      "U+1D668","U+1D669","U+1D66A","U+1D66B","U+1D66C","U+1D66D","U+1D66E","U+1D66F","U+1D670",
      "U+1D671","U+1D672","U+1D673","U+1D674","U+1D675","U+1D676","U+1D677","U+1D678","U+1D679",
      "U+1D67A","U+1D67B","U+1D67C","U+1D67D","U+1D67E","U+1D67F","U+1D680","U+1D681","U+1D682",
      "U+1D683","U+1D684","U+1D685","U+1D686","U+1D687","U+1D688","U+1D689","U+1D68A","U+1D68B",
      "U+1D68C","U+1D68D","U+1D68E","U+1D68F","U+1D690","U+1D691","U+1D692","U+1D693","U+1D694",
      "U+1D695","U+1D696","U+1D697","U+1D698","U+1D699","U+1D69A","U+1D69B","U+1D69C","U+1D69D",
      "U+1D69E","U+1D69F","U+1D6A0","U+1D6A1","U+1D6A2","U+1D6A3","U+1D6A4","U+1D6A5","U+1D6A8",
      "U+1D6A9","U+1D6AA","U+1D6AB","U+1D6AC","U+1D6AD","U+1D6AE","U+1D6AF","U+1D6B0","U+1D6B1",
      "U+1D6B2","U+1D6B3","U+1D6B4","U+1D6B5","U+1D6B6","U+1D6B7","U+1D6B8","U+1D6B9","U+1D6BA",
      "U+1D6BB","U+1D6BC","U+1D6BD","U+1D6BE","U+1D6BF","U+1D6C0","U+1D6C2","U+1D6C3","U+1D6C4",
      "U+1D6C5","U+1D6C6","U+1D6C7","U+1D6C8","U+1D6C9","U+1D6CA","U+1D6CB","U+1D6CC","U+1D6CD",
      "U+1D6CE","U+1D6CF","U+1D6D0","U+1D6D1","U+1D6D2","U+1D6D3","U+1D6D4","U+1D6D5","U+1D6D6",
      "U+1D6D7","U+1D6D8","U+1D6D9","U+1D6DA","U+1D6DC","U+1D6DD","U+1D6DE","U+1D6DF","U+1D6E0",
      "U+1D6E1","U+1D6E2","U+1D6E3","U+1D6E4","U+1D6E5","U+1D6E6","U+1D6E7","U+1D6E8","U+1D6E9",
      "U+1D6EA","U+1D6EB","U+1D6EC","U+1D6ED","U+1D6EE","U+1D6EF","U+1D6F0","U+1D6F1","U+1D6F2",
      "U+1D6F3","U+1D6F4","U+1D6F5","U+1D6F6","U+1D6F7","U+1D6F8","U+1D6F9","U+1D6FA","U+1D6FC",
      "U+1D6FD","U+1D6FE","U+1D6FF","U+1D700","U+1D701","U+1D702","U+1D703","U+1D704","U+1D705",
      "U+1D706","U+1D707","U+1D708","U+1D709","U+1D70A","U+1D70B","U+1D70C","U+1D70D","U+1D70E",
      "U+1D70F","U+1D710","U+1D711","U+1D712","U+1D713","U+1D714","U+1D716","U+1D717","U+1D718",
      "U+1D719","U+1D71A","U+1D71B","U+1D71C","U+1D71D","U+1D71E","U+1D71F","U+1D720","U+1D721",
      "U+1D722","U+1D723","U+1D724","U+1D725","U+1D726","U+1D727","U+1D728","U+1D729","U+1D72A",
      "U+1D72B","U+1D72C","U+1D72D","U+1D72E","U+1D72F","U+1D730","U+1D731","U+1D732","U+1D733",
      "U+1D734","U+1D736","U+1D737","U+1D738","U+1D739","U+1D73A","U+1D73B","U+1D73C","U+1D73D",
      "U+1D73E","U+1D73F","U+1D740","U+1D741","U+1D742","U+1D743","U+1D744","U+1D745","U+1D746",
      "U+1D747","U+1D748","U+1D749","U+1D74A","U+1D74B","U+1D74C","U+1D74D","U+1D74E","U+1D750",
      "U+1D751","U+1D752","U+1D753","U+1D754","U+1D755","U+1D756","U+1D757","U+1D758","U+1D759",
      "U+1D75A","U+1D75B","U+1D75C","U+1D75D","U+1D75E","U+1D75F","U+1D760","U+1D761","U+1D762",
      "U+1D763","U+1D764","U+1D765","U+1D766","U+1D767","U+1D768","U+1D769","U+1D76A","U+1D76B",
      "U+1D76C","U+1D76D","U+1D76E","U+1D770","U+1D771","U+1D772","U+1D773","U+1D774","U+1D775",
      "U+1D776","U+1D777","U+1D778","U+1D779","U+1D77A","U+1D77B","U+1D77C","U+1D77D","U+1D77E",
      "U+1D77F","U+1D780","U+1D781","U+1D782","U+1D783","U+1D784","U+1D785","U+1D786","U+1D787",
      "U+1D788","U+1D78A","U+1D78B","U+1D78C","U+1D78D","U+1D78E","U+1D78F","U+1D790","U+1D791",
      "U+1D792","U+1D793","U+1D794","U+1D795","U+1D796","U+1D797","U+1D798","U+1D799","U+1D79A",
      "U+1D79B","U+1D79C","U+1D79D","U+1D79E","U+1D79F","U+1D7A0","U+1D7A1","U+1D7A2","U+1D7A3",
      "U+1D7A4","U+1D7A5","U+1D7A6","U+1D7A7","U+1D7A8","U+1D7AA","U+1D7AB","U+1D7AC","U+1D7AD",
      "U+1D7AE","U+1D7AF","U+1D7B0","U+1D7B1","U+1D7B2","U+1D7B3","U+1D7B4","U+1D7B5","U+1D7B6",
      "U+1D7B7","U+1D7B8","U+1D7B9","U+1D7BA","U+1D7BB","U+1D7BC","U+1D7BD","U+1D7BE","U+1D7BF",
      "U+1D7C0","U+1D7C1","U+1D7C2","U+1D7C4","U+1D7C5","U+1D7C6","U+1D7C7","U+1D7C8","U+1D7C9",
      "U+1D7CA","U+1D7CB","U+1DF00","U+1DF01","U+1DF02","U+1DF03","U+1DF04","U+1DF05","U+1DF06",
      "U+1DF07","U+1DF08","U+1DF09","U+1DF0B","U+1DF0C","U+1DF0D","U+1DF0E","U+1DF0F","U+1DF10",
      "U+1DF11","U+1DF12","U+1DF13","U+1DF14","U+1DF15","U+1DF16","U+1DF17","U+1DF18","U+1DF19",
      "U+1DF1A","U+1DF1B","U+1DF1C","U+1DF1D","U+1DF1E","U+1F130","U+1F131","U+1F132","U+1F133",
      "U+1F134","U+1F135","U+1F136","U+1F137","U+1F138","U+1F139","U+1F13A","U+1F13B","U+1F13C",
      "U+1F13D","U+1F13E","U+1F13F","U+1F140","U+1F141","U+1F142","U+1F143","U+1F144","U+1F145",
      "U+1F146","U+1F147","U+1F148","U+1F149","U+1F150","U+1F151","U+1F152","U+1F153","U+1F154",
      "U+1F155","U+1F156","U+1F157","U+1F158","U+1F159","U+1F15A","U+1F15B","U+1F15C","U+1F15D",
      "U+1F15E","U+1F15F","U+1F160","U+1F161","U+1F162","U+1F163","U+1F164","U+1F165","U+1F166",
      "U+1F167","U+1F168","U+1F169","U+1F170","U+1F171","U+1F172","U+1F173","U+1F174","U+1F175",
      "U+1F176","U+1F177","U+1F178","U+1F179","U+1F17A","U+1F17B","U+1F17C","U+1F17D","U+1F17E",
      "U+1F17F","U+1F180","U+1F181","U+1F182","U+1F183","U+1F184","U+1F185","U+1F186","U+1F187",
      "U+1F188","U+1F189">>

\* the characters the final-sigma rule of str.lower() calls cased
CasedChars ==
    {CapitalChars[i] : i \in 1..Len(CapitalChars)}
    \cup {SmallChars[i] : i \in 1..Len(SmallChars)}
    \cup {OtherCasedChars[i] : i \in 1..Len(OtherCasedChars)}

\* the characters the final-sigma rule skips
CaseIgnorableChars ==
    {"'",".",":","^","U+0060","¨","­","¯","´","·","¸","ʰ","ʱ","ʲ","ʳ","ʴ","ʵ","ʶ","ʷ","ʸ","ʹ",
     "ʺ","ʻ","ʼ","ʽ","ʾ","ʿ","ˀ","ˁ","˂","˃","˄","˅","ˆ","ˇ","ˈ","ˉ","ˊ","ˋ","ˌ","ˍ","ˎ","ˏ",
     "ː","ˑ","˒","˓","˔","˕","˖","˗","˘","˙","˚","˛","˜","˝","˞","˟","ˠ","ˡ","ˢ","ˣ","ˤ","˥",
     "˦","˧","˨","˩","˪","˫","ˬ","˭","ˮ","˯","˰","˱","˲","˳","˴","˵","˶","˷","˸","˹","˺","˻",
     "˼","˽","˾","˿","U+0300","U+0301","U+0302","U+0303","U+0304","U+0305","U+0306","U+0307",
     "U+0308","U+0309","U+030A","U+030B","U+030C","U+030D","U+030E","U+030F","U+0310","U+0311",
     "U+0312","U+0313","U+0314","U+0315","U+0316","U+0317","U+0318","U+0319","U+031A","U+031B",
     "U+031C","U+031D","U+031E","U+031F","U+0320","U+0321","U+0322","U+0323","U+0324","U+0325",
     "U+0326","U+0327","U+0328","U+0329","U+032A","U+032B","U+032C","U+032D","U+032E","U+032F",
     "U+0330","U+0331","U+0332","U+0333","U+0334","U+0335","U+0336","U+0337","U+0338","U+0339",
     "U+033A","U+033B","U+033C","U+033D","U+033E","U+033F","U+0340","U+0341","U+0342","U+0343",
     "U+0344","U+0345","U+0346","U+0347","U+0348","U+0349","U+034A","U+034B","U+034C","U+034D",
     "U+034E","U+034F","U+0350","U+0351","U+0352","U+0353","U+0354","U+0355","U+0356","U+0357",
     "U+0358","U+0359","U+035A","U+035B","U+035C","U+035D","U+035E","U+035F","U+0360","U+0361",
     "U+0362","U+0363","U+0364","U+0365","U+0366","U+0367","U+0368","U+0369","U+036A","U+036B",
     "U+036C","U+036D","U+036E","U+036F","U+0374","U+0375","U+037A","΄","΅","·","҃","҄","҅","҆",
     "҇","҈","҉","U+0559","U+055F","֑","֒","֓","֔","֕","֖","֗","֘","֙","֚","֛","֜","֝","֞","֟",
     "֠","֡","֢","֣","֤","֥","֦","֧","֨","֩","֪","֫","֬","֭","֮","֯","ְ","ֱ","ֲ","ֳ","ִ","ֵ",
     "ֶ","ַ","ָ","ֹ","ֺ","ֻ","ּ","ֽ","ֿ","ׁ","ׂ","ׄ","ׅ","ׇ","״","U+0600","U+0601","U+0602",
     "U+0603","U+0604","U+0605","U+0610","U+0611","U+0612","U+0613","U+0614","U+0615","U+0616",
     "U+0617","U+0618","U+0619","U+061A","U+061C","U+0640","U+064B","U+064C","U+064D","U+064E",
     "U+064F","U+0650","U+0651","U+0652","U+0653","U+0654","U+0655","U+0656","U+0657","U+0658",
     "U+0659","U+065A","U+065B","U+065C","U+065D","U+065E","U+065F","U+0670","ۖ","ۗ","ۘ","ۙ",
     "ۚ","ۛ","ۜ","۝","۟","۠","ۡ","ۢ","ۣ","ۤ","ۥ","ۦ","ۧ","ۨ","۪","۫","۬","ۭ","U+070F","U+0711",
     "U+0730","U+0731","U+0732","U+0733","U+0734","U+0735","U+0736","U+0737","U+0738","U+0739",
     "U+073A","U+073B","U+073C","U+073D","U+073E","U+073F","U+0740","U+0741","U+0742","U+0743",
     "U+0744","U+0745","U+0746","U+0747","U+0748","U+0749","U+074A","ަ","ާ","ި","ީ","ު","ޫ","ެ",
     "ޭ","ޮ","ޯ","ް","߫","߬","߭","߮","߯","߰","߱","߲","߳","ߴ","ߵ","ߺ","߽","U+0816","U+0817",
     "U+0818","U+0819","U+081A","U+081B","U+081C","U+081D","U+081E","U+081F","U+0820","U+0821",
     "U+0822","U+0823","U+0824","U+0825","U+0826","U+0827","U+0828","U+0829","U+082A","U+082B",
     "U+082C","U+082D","U+0859","U+085A","U+085B","࢈","࢐","࢑","࢘","࢙","࢚","࢛","࢜","࢝","࢞","࢟",
     "ࣉ","࣊","࣋","࣌","࣍","࣎","࣏","࣐","࣑","࣒","࣓","ࣔ","ࣕ","ࣖ","ࣗ","ࣘ","ࣙ","ࣚ","ࣛ","ࣜ","ࣝ","ࣞ",
     "ࣟ","࣠","࣡","࣢","ࣣ","ࣤ","ࣥ","ࣦ","ࣧ","ࣨ","ࣩ","࣪","࣫","࣬","࣭","࣮","࣯","ࣰ","ࣱ","ࣲ","ࣳ","ࣴ",
     "ࣵ","ࣶ","ࣷ","ࣸ","ࣹ","ࣺ","ࣻ","ࣼ","ࣽ","ࣾ","ࣿ","U+0900","U+0901","U+0902","U+093A","U+093C",
     "U+0941","U+0942","U+0943","U+0944","U+0945","U+0946","U+0947","U+0948","U+094D","U+0951",
     "U+0952","U+0953","U+0954","U+0955","U+0956","U+0957","U+0962","U+0963","U+0971","ঁ","়",
     "ু","ূ","ৃ","ৄ","্","ৢ","ৣ","৾","U+0A01","U+0A02","U+0A3C","U+0A41","U+0A42","U+0A47",
     "U+0A48","U+0A4B","U+0A4C","U+0A4D","U+0A51","U+0A70","U+0A71","U+0A75","ઁ","ં","઼","ુ",
     "ૂ","ૃ","ૄ","ૅ","ે","ૈ","્","ૢ","ૣ","ૺ","ૻ","ૼ","૽","૾","૿","U+0B01","U+0B3C","U+0B3F",
     "U+0B41","U+0B42","U+0B43","U+0B44","U+0B4D","U+0B55","U+0B56","U+0B62","U+0B63","ஂ","ீ",
     "்","U+0C00","U+0C04","U+0C3C","U+0C3E","U+0C3F","U+0C40","U+0C46","U+0C47","U+0C48",
     "U+0C4A","U+0C4B","U+0C4C","U+0C4D","U+0C55","U+0C56","U+0C62","U+0C63","ಁ","಼","ಿ","ೆ",
     "ೌ","್","ೢ","ೣ","U+0D00","U+0D01","U+0D3B","U+0D3C","U+0D41","U+0D42","U+0D43","U+0D44",
     "U+0D4D","U+0D62","U+0D63","ඁ","්","ි","ී","ු","ූ","U+0E31","U+0E34","U+0E35","U+0E36",
     "U+0E37","U+0E38","U+0E39","U+0E3A","U+0E46","U+0E47","U+0E48","U+0E49","U+0E4A","U+0E4B",
     "U+0E4C","U+0E4D","U+0E4E","ັ","ິ","ີ","ຶ","ື","ຸ","ູ","຺","ົ","ຼ","ໆ","່","້","໊","໋","໌",
     "ໍ","U+0F18","U+0F19","U+0F35","U+0F37","U+0F39","U+0F71","U+0F72","U+0F73","U+0F74",
     "U+0F75","U+0F76","U+0F77","U+0F78","U+0F79","U+0F7A","U+0F7B","U+0F7C","U+0F7D","U+0F7E",
     "ྀ","ཱྀ","ྂ","ྃ","྄","྆","྇","ྍ","ྎ","ྏ","ྐ","ྑ","ྒ","ྒྷ","ྔ","ྕ","ྖ","ྗ","ྙ","ྚ","ྛ","ྜ",
     "ྜྷ","ྞ","ྟ","ྠ","ྡ","ྡྷ","ྣ","ྤ","ྥ","ྦ","ྦྷ","ྨ","ྩ","ྪ","ྫ","ྫྷ","ྭ","ྮ","ྯ","ྰ","ྱ","ྲ",
     "ླ","ྴ","ྵ","ྶ","ྷ","ྸ","ྐྵ","ྺ","ྻ","ྼ","࿆","U+102D","U+102E","U+102F","U+1030","U+1032",
     "U+1033","U+1034","U+1035","U+1036","U+1037","U+1039","U+103A","U+103D","U+103E","U+1058",
     "U+1059","U+105E","U+105F","U+1060","U+1071","U+1072","U+1073","U+1074","ႂ","ႅ","ႆ","ႍ",
     "ႝ","ჼ","U+135D","U+135E","U+135F","U+1712","U+1713","U+1714","U+1732","U+1733","U+1752",
     "U+1753","U+1772","U+1773","឴","឵","ិ","ី","ឹ","ឺ","ុ","ូ","ួ","ំ","៉","៊","់","៌","៍","៎",
     "៏","័","៑","្","៓","ៗ","៝","U+180B","U+180C","U+180D","U+180E","U+180F","U+1843","ᢅ","ᢆ",
     "ᢩ","U+1920","U+1921","U+1922","U+1927","U+1928","U+1932","U+1939","U+193A","U+193B",
     "U+1A17","U+1A18","U+1A1B","U+1A56","U+1A58","U+1A59","U+1A5A","U+1A5B","U+1A5C","U+1A5D",
     "U+1A5E","U+1A60","U+1A62","U+1A65","U+1A66","U+1A67","U+1A68","U+1A69","U+1A6A","U+1A6B",
     "U+1A6C","U+1A73","U+1A74","U+1A75","U+1A76","U+1A77","U+1A78","U+1A79","U+1A7A","U+1A7B",
     "U+1A7C","U+1A7F","ᪧ","᪰","᪱","᪲","᪳","᪴","᪵","᪶","᪷","᪸","᪹","᪺","᪻","᪼","᪽","᪾","ᪿ","ᫀ",
     "᫁","᫂","᫃","᫄","᫅","᫆","᫇","᫈","᫉","᫊","᫋","ᫌ","ᫍ","ᫎ","U+1B00","U+1B01","U+1B02",
     "U+1B03","U+1B34","U+1B36","U+1B37","U+1B38","U+1B39","U+1B3A","U+1B3C","U+1B42","U+1B6B",
     "U+1B6C","U+1B6D","U+1B6E","U+1B6F","U+1B70","U+1B71","U+1B72","U+1B73","ᮀ","ᮁ","ᮢ","ᮣ",
     "ᮤ","ᮥ","ᮨ","ᮩ","᮫","ᮬ","ᮭ","᯦","ᯨ","ᯩ","ᯭ","ᯯ","ᯰ","ᯱ","U+1C2C","U+1C2D","U+1C2E",
     "U+1C2F","U+1C30","U+1C31","U+1C32","U+1C33","U+1C36","U+1C37","U+1C78","U+1C79","U+1C7A",
     "U+1C7B","U+1C7C","U+1C7D","᳐","᳑","᳒","᳔","᳕","᳖","᳗","᳘","᳙","᳚","᳛","᳜","᳝","᳞","᳟","᳠",
     "᳢","᳣","᳤","᳥","᳦","᳧","᳨","᳭","᳴","᳸","᳹","U+1D2C","U+1D2D","U+1D2E","U+1D2F","U+1D30",
     "U+1D31","U+1D32","U+1D33","U+1D34","U+1D35","U+1D36","U+1D37","U+1D38","U+1D39","U+1D3A",
     "U+1D3B","U+1D3C","U+1D3D","U+1D3E","U+1D3F","U+1D40","U+1D41","U+1D42","U+1D43","U+1D44",
     "U+1D45","U+1D46","U+1D47","U+1D48","U+1D49","U+1D4A","U+1D4B","U+1D4C","U+1D4D","U+1D4E",
     "U+1D4F","U+1D50","U+1D51","U+1D52","U+1D53","U+1D54","U+1D55","U+1D56","U+1D57","U+1D58",
     "U+1D59","U+1D5A","U+1D5B","U+1D5C","U+1D5D","U+1D5E","U+1D5F","U+1D60","U+1D61","U+1D62",
     "U+1D63","U+1D64","U+1D65","U+1D66","U+1D67","U+1D68","U+1D69","U+1D6A","U+1D78","ᶛ","ᶜ",
     "ᶝ","ᶞ","ᶟ","ᶠ","ᶡ","ᶢ","ᶣ","ᶤ","ᶥ","ᶦ","ᶧ","ᶨ","ᶩ","ᶪ","ᶫ","ᶬ","ᶭ","ᶮ","ᶯ","ᶰ","ᶱ","ᶲ",
     "ᶳ","ᶴ","ᶵ","ᶶ","ᶷ","ᶸ","ᶹ","ᶺ","ᶻ","ᶼ","ᶽ","ᶾ","ᶿ","᷀","᷁","᷂","᷃","᷄","᷅","᷆","᷇","᷈",
     "᷉","᷊","᷋","᷌","᷍","᷎","᷏","᷐","᷑","᷒","ᷓ","ᷔ","ᷕ","ᷖ","ᷗ","ᷘ","ᷙ","ᷚ","ᷛ","ᷜ","ᷝ","ᷞ",
     "ᷟ","ᷠ","ᷡ","ᷢ","ᷣ","ᷤ","ᷥ","ᷦ","ᷧ","ᷨ","ᷩ","ᷪ","ᷫ","ᷬ","ᷭ","ᷮ","ᷯ","ᷰ","ᷱ","ᷲ","ᷳ","ᷴ",
     "᷵","᷶","᷷","᷸","᷹","᷺","᷻","᷼","᷽","᷾","᷿","᾽","᾿","῀","῁","῍","῎","῏","῝","῞","῟","῭",
     "΅","`","´","῾","U+200B","U+200C","U+200D","U+200E","U+200F","U+2018","U+2019","U+2024",
     "U+2027","U+202A","U+202B","U+202C","U+202D","U+202E","U+2060","U+2061","U+2062","U+2063",
     "U+2064","U+2066","U+2067","U+2068","U+2069","U+206A","U+206B","U+206C","U+206D","U+206E",
     "U+206F","U+2071","U+207F","ₐ","ₑ","ₒ","ₓ","ₔ","ₕ","ₖ","ₗ","ₘ","ₙ","ₚ","ₛ","ₜ","⃐","⃑","⃒",
     "⃓","⃔","⃕","⃖","⃗","⃘","⃙","⃚","⃛","⃜","⃝","⃞","⃟","⃠","⃡","⃢","⃣","⃤","⃥","⃦","⃧","⃨",
     "⃩","⃪","⃫","⃬","⃭","⃮","⃯","⃰","U+2C7C","U+2C7D","⳯","⳰","⳱","U+2D6F","U+2D7F","ⷠ","ⷡ",
     "ⷢ","ⷣ","ⷤ","ⷥ","ⷦ","ⷧ","ⷨ","ⷩ","ⷪ","ⷫ","ⷬ","ⷭ","ⷮ","ⷯ","ⷰ","ⷱ","ⷲ","ⷳ","ⷴ","ⷵ","ⷶ","ⷷ",
     "ⷸ","ⷹ","ⷺ","ⷻ","ⷼ","ⷽ","ⷾ","ⷿ","U+2E2F","U+3005","U+302A","U+302B","U+302C","U+302D",
     "U+3031","U+3032","U+3033","U+3034","U+3035","U+303B","゙","゚","゛","゜","ゝ","ゞ","ー","ヽ","ヾ",
     "U+A015","ꓸ","ꓹ","ꓺ","ꓻ","ꓼ","ꓽ","U+A60C","U+A66F","U+A670","U+A671","U+A672","U+A674",
     "U+A675","U+A676","U+A677","U+A678","U+A679","U+A67A","U+A67B","U+A67C","U+A67D","U+A67F",
     "ꚜ","ꚝ","ꚞ","ꚟ","꛰","꛱","U+A700","U+A701","U+A702","U+A703","U+A704","U+A705","U+A706",
     "U+A707","U+A708","U+A709","U+A70A","U+A70B","U+A70C","U+A70D","U+A70E","U+A70F","U+A710",
     "U+A711","U+A712","U+A713","U+A714","U+A715","U+A716","U+A717","U+A718","U+A719","U+A71A",
     "U+A71B","U+A71C","U+A71D","U+A71E","U+A71F","U+A720","U+A721","U+A770","ꞈ","꞉","꞊","ꟲ",
     "ꟳ","ꟴ","ꟸ","ꟹ","U+A802","U+A806","U+A80B","U+A825","U+A826","U+A82C","꣄","ꣅ","꣠","꣡","꣢",
     "꣣","꣤","꣥","꣦","꣧","꣨","꣩","꣪","꣫","꣬","꣭","꣮","꣯","꣰","꣱","ꣿ","U+A926","U+A927","U+A928",
     "U+A929","U+A92A","U+A92B","U+A92C","U+A92D","U+A947","U+A948","U+A949","U+A94A","U+A94B",
     "U+A94C","U+A94D","U+A94E","U+A94F","U+A950","U+A951","ꦀ","ꦁ","ꦂ","꦳","ꦶ","ꦷ","ꦸ","ꦹ","ꦼ",
     "ꦽ","ꧏ","ꧥ","ꧦ","U+AA29","U+AA2A","U+AA2B","U+AA2C","U+AA2D","U+AA2E","U+AA31","U+AA32",
     "U+AA35","U+AA36","U+AA43","U+AA4C","U+AA70","U+AA7C","ꪰ","ꪲ","ꪳ","ꪴ","ꪷ","ꪸ","ꪾ","꪿","꫁",
     "ꫝ","ꫬ","ꫭ","ꫳ","ꫴ","꫶","U+AB5B","U+AB5C","U+AB5D","U+AB5E","U+AB5F","U+AB69","U+AB6A",
     "U+AB6B","ꯥ","ꯨ","꯭","U+FB1E","﮲","﮳","﮴","﮵","﮶","﮷","﮸","﮹","﮺","﮻","﮼","﮽","﮾","﮿","﯀",
     "﯁","﯂","U+FE00","U+FE01","U+FE02","U+FE03","U+FE04","U+FE05","U+FE06","U+FE07","U+FE08",
     "U+FE09","U+FE0A","U+FE0B","U+FE0C","U+FE0D","U+FE0E","U+FE0F","U+FE13","U+FE20","U+FE21",
     "U+FE22","U+FE23","U+FE24","U+FE25","U+FE26","U+FE27","U+FE28","U+FE29","U+FE2A","U+FE2B",
     "U+FE2C","U+FE2D","U+FE2E","U+FE2F","U+FE52","U+FE55","﻿","U+FF07","U+FF0E","U+FF1A",
     "U+FF3E","U+FF40","U+FF70","ﾞ","ﾟ","￣","￹","￺","￻","U+101FD","U+102E0","U+10376","U+10377",
     "U+10378","U+10379","U+1037A","U+10780","U+10781","U+10782","U+10783","U+10784","U+10785",
     "U+10787","U+10788","U+10789","U+1078A","U+1078B","U+1078C","U+1078D","U+1078E","U+1078F",
     "U+10790","U+10791","U+10792","U+10793","U+10794","U+10795","U+10796","U+10797","U+10798",
     "U+10799","U+1079A","U+1079B","U+1079C","U+1079D","U+1079E","U+1079F","U+107A0","U+107A1",
     "U+107A2","U+107A3","U+107A4","U+107A5","U+107A6","U+107A7","U+107A8","U+107A9","U+107AA",
     "U+107AB","U+107AC","U+107AD","U+107AE","U+107AF","U+107B0","U+107B2","U+107B3","U+107B4",
     "U+107B5","U+107B6","U+107B7","U+107B8","U+107B9","U+107BA","U+10A01","U+10A02","U+10A03",
     "U+10A05","U+10A06","U+10A0C","U+10A0D","U+10A0E","U+10A0F","U+10A38","U+10A39","U+10A3A",
     "U+10A3F","U+10AE5","U+10AE6","U+10D24","U+10D25","U+10D26","U+10D27","U+10EAB","U+10EAC",
     "U+10F46","U+10F47","U+10F48","U+10F49","U+10F4A","U+10F4B","U+10F4C","U+10F4D","U+10F4E",
     "U+10F4F","U+10F50","U+10F82","U+10F83","U+10F84","U+10F85","U+11001","U+11038","U+11039",
     "U+1103A","U+1103B","U+1103C","U+1103D","U+1103E","U+1103F","U+11040","U+11041","U+11042",
     "U+11043","U+11044","U+11045","U+11046","U+11070","U+11073","U+11074","U+1107F","U+11080",
     "U+11081","U+110B3","U+110B4","U+110B5","U+110B6","U+110B9","U+110BA","U+110BD","U+110C2",
     "U+110CD","U+11100","U+11101","U+11102","U+11127","U+11128","U+11129","U+1112A","U+1112B",
     "U+1112D","U+1112E","U+1112F","U+11130","U+11131","U+11132","U+11133","U+11134","U+11173",
     "U+11180","U+11181","U+111B6","U+111B7","U+111B8","U+111B9","U+111BA","U+111BB","U+111BC",
     "U+111BD","U+111BE","U+111C9","U+111CA","U+111CB","U+111CC","U+111CF","U+1122F","U+11230",
     "U+11231","U+11234","U+11236","U+11237","U+1123E","U+112DF","U+112E3","U+112E4","U+112E5",
     "U+112E6","U+112E7","U+112E8","U+112E9","U+112EA","U+11300","U+11301","U+1133B","U+1133C",
     "U+11340","U+11366","U+11367","U+11368","U+11369","U+1136A","U+1136B","U+1136C","U+11370",
     "U+11371","U+11372","U+11373","U+11374","U+11438","U+11439","U+1143A","U+1143B","U+1143C",
     "U+1143D","U+1143E","U+1143F","U+11442","U+11443","U+11444","U+11446","U+1145E","U+114B3",
     "U+114B4","U+114B5","U+114B6","U+114B7","U+114B8","U+114BA","U+114BF","U+114C0","U+114C2",
     "U+114C3","U+115B2","U+115B3","U+115B4","U+115B5","U+115BC","U+115BD","U+115BF","U+115C0",
     "U+115DC","U+115DD","U+11633","U+11634","U+11635","U+11636","U+11637","U+11638","U+11639",
     "U+1163A","U+1163D","U+1163F","U+11640","U+116AB","U+116AD","U+116B0","U+116B1","U+116B2",
     "U+116B3","U+116B4","U+116B5","U+116B7","U+1171D","U+1171E","U+1171F","U+11722","U+11723",
     "U+11724","U+11725","U+11727","U+11728","U+11729","U+1172A","U+1172B","U+1182F","U+11830",
     "U+11831","U+11832","U+11833","U+11834","U+11835","U+11836","U+11837","U+11839","U+1183A",
     "U+1193B","U+1193C","U+1193E","U+11943","U+119D4","U+119D5","U+119D6","U+119D7","U+119DA",
     "U+119DB","U+119E0","U+11A01","U+11A02","U+11A03","U+11A04","U+11A05","U+11A06","U+11A07",
     "U+11A08","U+11A09","U+11A0A","U+11A33","U+11A34","U+11A35","U+11A36","U+11A37","U+11A38",
     "U+11A3B","U+11A3C","U+11A3D","U+11A3E","U+11A47","U+11A51","U+11A52","U+11A53","U+11A54",
     "U+11A55","U+11A56","U+11A59","U+11A5A","U+11A5B","U+11A8A","U+11A8B","U+11A8C","U+11A8D",
     "U+11A8E","U+11A8F","U+11A90","U+11A91","U+11A92","U+11A93","U+11A94","U+11A95","U+11A96",
     "U+11A98","U+11A99","U+11C30","U+11C31","U+11C32","U+11C33","U+11C34","U+11C35","U+11C36",
     "U+11C38","U+11C39","U+11C3A","U+11C3B","U+11C3C","U+11C3D","U+11C3F","U+11C92","U+11C93",
     "U+11C94","U+11C95","U+11C96","U+11C97","U+11C98","U+11C99","U+11C9A","U+11C9B","U+11C9C",
     "U+11C9D","U+11C9E","U+11C9F","U+11CA0","U+11CA1","U+11CA2","U+11CA3","U+11CA4","U+11CA5",
     "U+11CA6","U+11CA7","U+11CAA","U+11CAB","U+11CAC","U+11CAD","U+11CAE","U+11CAF","U+11CB0",
     "U+11CB2","U+11CB3","U+11CB5","U+11CB6","U+11D31","U+11D32","U+11D33","U+11D34","U+11D35",
     "U+11D36","U+11D3A","U+11D3C","U+11D3D","U+11D3F","U+11D40","U+11D41","U+11D42","U+11D43",
     "U+11D44","U+11D45","U+11D47","U+11D90","U+11D91","U+11D95","U+11D97","U+11EF3","U+11EF4",
     "U+13430","U+13431","U+13432","U+13433","U+13434","U+13435","U+13436","U+13437","U+13438",
     "U+16AF0","U+16AF1","U+16AF2","U+16AF3","U+16AF4","U+16B30","U+16B31","U+16B32","U+16B33",
     "U+16B34","U+16B35","U+16B36","U+16B40","U+16B41","U+16B42","U+16B43","U+16F4F","U+16F8F",
     "U+16F90","U+16F91","U+16F92","U+16F93","U+16F94","U+16F95","U+16F96","U+16F97","U+16F98",
     "U+16F99","U+16F9A","U+16F9B","U+16F9C","U+16F9D","U+16F9E","U+16F9F","U+16FE0","U+16FE1",
     "U+16FE3","U+16FE4","U+1AFF0","U+1AFF1","U+1AFF2","U+1AFF3","U+1AFF5","U+1AFF6","U+1AFF7",
     "U+1AFF8","U+1AFF9","U+1AFFA","U+1AFFB","U+1AFFD","U+1AFFE","U+1BC9D","U+1BC9E","U+1BCA0",
     "U+1BCA1","U+1BCA2","U+1BCA3","U+1CF00","U+1CF01","U+1CF02","U+1CF03","U+1CF04","U+1CF05",
     "U+1CF06","U+1CF07","U+1CF08","U+1CF09","U+1CF0A","U+1CF0B","U+1CF0C","U+1CF0D","U+1CF0E",
     "U+1CF0F","U+1CF10","U+1CF11","U+1CF12","U+1CF13","U+1CF14","U+1CF15","U+1CF16","U+1CF17",
     "U+1CF18","U+1CF19","U+1CF1A","U+1CF1B","U+1CF1C","U+1CF1D","U+1CF1E","U+1CF1F","U+1CF20",
     "U+1CF21","U+1CF22","U+1CF23","U+1CF24","U+1CF25","U+1CF26","U+1CF27","U+1CF28","U+1CF29",
     "U+1CF2A","U+1CF2B","U+1CF2C","U+1CF2D","U+1CF30","U+1CF31","U+1CF32","U+1CF33","U+1CF34",
     "U+1CF35","U+1CF36","U+1CF37","U+1CF38","U+1CF39","U+1CF3A","U+1CF3B","U+1CF3C","U+1CF3D",
     "U+1CF3E","U+1CF3F","U+1CF40","U+1CF41","U+1CF42","U+1CF43","U+1CF44","U+1CF45","U+1CF46",
     "U+1D167","U+1D168","U+1D169","U+1D173","U+1D174","U+1D175","U+1D176","U+1D177","U+1D178",
     "U+1D179","U+1D17A","U+1D17B","U+1D17C","U+1D17D","U+1D17E","U+1D17F","U+1D180","U+1D181",
     "U+1D182","U+1D185","U+1D186","U+1D187","U+1D188","U+1D189","U+1D18A","U+1D18B","U+1D1AA",
     "U+1D1AB","U+1D1AC","U+1D1AD","U+1D242","U+1D243","U+1D244","U+1DA00","U+1DA01","U+1DA02",
     "U+1DA03","U+1DA04","U+1DA05","U+1DA06","U+1DA07","U+1DA08","U+1DA09","U+1DA0A","U+1DA0B",
     "U+1DA0C","U+1DA0D","U+1DA0E","U+1DA0F","U+1DA10","U+1DA11","U+1DA12","U+1DA13","U+1DA14",
     "U+1DA15","U+1DA16","U+1DA17","U+1DA18","U+1DA19","U+1DA1A","U+1DA1B","U+1DA1C","U+1DA1D",
     "U+1DA1E","U+1DA1F","U+1DA20","U+1DA21","U+1DA22","U+1DA23","U+1DA24","U+1DA25","U+1DA26",
     "U+1DA27","U+1DA28","U+1DA29","U+1DA2A","U+1DA2B","U+1DA2C","U+1DA2D","U+1DA2E","U+1DA2F",
     "U+1DA30","U+1DA31","U+1DA32","U+1DA33","U+1DA34","U+1DA35","U+1DA36","U+1DA3B","U+1DA3C",
     "U+1DA3D","U+1DA3E","U+1DA3F","U+1DA40","U+1DA41","U+1DA42","U+1DA43","U+1DA44","U+1DA45",
     "U+1DA46","U+1DA47","U+1DA48","U+1DA49","U+1DA4A","U+1DA4B","U+1DA4C","U+1DA4D","U+1DA4E",
     "U+1DA4F","U+1DA50","U+1DA51","U+1DA52","U+1DA53","U+1DA54","U+1DA55","U+1DA56","U+1DA57",
     "U+1DA58","U+1DA59","U+1DA5A","U+1DA5B","U+1DA5C","U+1DA5D","U+1DA5E","U+1DA5F","U+1DA60",
     "U+1DA61","U+1DA62","U+1DA63","U+1DA64","U+1DA65","U+1DA66","U+1DA67","U+1DA68","U+1DA69",
     "U+1DA6A","U+1DA6B","U+1DA6C","U+1DA75","U+1DA84","U+1DA9B","U+1DA9C","U+1DA9D","U+1DA9E",
     "U+1DA9F","U+1DAA1","U+1DAA2","U+1DAA3","U+1DAA4","U+1DAA5","U+1DAA6","U+1DAA7","U+1DAA8",
     "U+1DAA9","U+1DAAA","U+1DAAB","U+1DAAC","U+1DAAD","U+1DAAE","U+1DAAF","U+1E000","U+1E001",
     "U+1E002","U+1E003","U+1E004","U+1E005","U+1E006","U+1E008","U+1E009","U+1E00A","U+1E00B",
     "U+1E00C","U+1E00D","U+1E00E","U+1E00F","U+1E010","U+1E011","U+1E012","U+1E013","U+1E014",
     "U+1E015","U+1E016","U+1E017","U+1E018","U+1E01B","U+1E01C","U+1E01D","U+1E01E","U+1E01F",
     "U+1E020","U+1E021","U+1E023","U+1E024","U+1E026","U+1E027","U+1E028","U+1E029","U+1E02A",
     "U+1E130","U+1E131","U+1E132","U+1E133","U+1E134","U+1E135","U+1E136","U+1E137","U+1E138",
     "U+1E139","U+1E13A","U+1E13B","U+1E13C","U+1E13D","U+1E2AE","U+1E2EC","U+1E2ED","U+1E2EE",
     "U+1E2EF","U+1E8D0","U+1E8D1","U+1E8D2","U+1E8D3","U+1E8D4","U+1E8D5","U+1E8D6","U+1E944",
     "U+1E945","U+1E946","U+1E947","U+1E948","U+1E949","U+1E94A","U+1E94B","U+1F3FB","U+1F3FC",
     "U+1F3FD","U+1F3FE","U+1F3FF","U+E0001","U+E0020","U+E0021","U+E0022","U+E0023","U+E0024",
     "U+E0025","U+E0026","U+E0027","U+E0028","U+E0029","U+E002A","U+E002B","U+E002C","U+E002D",
     "U+E002E","U+E002F","U+E0030","U+E0031","U+E0032","U+E0033","U+E0034","U+E0035","U+E0036",
     "U+E0037","U+E0038","U+E0039","U+E003A","U+E003B","U+E003C","U+E003D","U+E003E","U+E003F",
     "U+E0040","U+E0041","U+E0042","U+E0043","U+E0044","U+E0045","U+E0046","U+E0047","U+E0048",
     "U+E0049","U+E004A","U+E004B","U+E004C","U+E004D","U+E004E","U+E004F","U+E0050","U+E0051",
     "U+E0052","U+E0053","U+E0054","U+E0055","U+E0056","U+E0057","U+E0058","U+E0059","U+E005A",
     "U+E005B","U+E005C","U+E005D","U+E005E","U+E005F","U+E0060","U+E0061","U+E0062","U+E0063",
     "U+E0064","U+E0065","U+E0066","U+E0067","U+E0068","U+E0069","U+E006A","U+E006B","U+E006C",
     "U+E006D","U+E006E","U+E006F","U+E0070","U+E0071","U+E0072","U+E0073","U+E0074","U+E0075",
     "U+E0076","U+E0077","U+E0078","U+E0079","U+E007A","U+E007B","U+E007C","U+E007D","U+E007E",
     "U+E007F","U+E0100","U+E0101","U+E0102","U+E0103","U+E0104","U+E0105","U+E0106","U+E0107",
     "U+E0108","U+E0109","U+E010A","U+E010B","U+E010C","U+E010D","U+E010E","U+E010F","U+E0110",
     "U+E0111","U+E0112","U+E0113","U+E0114","U+E0115","U+E0116","U+E0117","U+E0118","U+E0119",
     "U+E011A","U+E011B","U+E011C","U+E011D","U+E011E","U+E011F","U+E0120","U+E0121","U+E0122",
     "U+E0123","U+E0124","U+E0125","U+E0126","U+E0127","U+E0128","U+E0129","U+E012A","U+E012B",
     "U+E012C","U+E012D","U+E012E","U+E012F","U+E0130","U+E0131","U+E0132","U+E0133","U+E0134",
     "U+E0135","U+E0136","U+E0137","U+E0138","U+E0139","U+E013A","U+E013B","U+E013C","U+E013D",
     "U+E013E","U+E013F","U+E0140","U+E0141","U+E0142","U+E0143","U+E0144","U+E0145","U+E0146",
     "U+E0147","U+E0148","U+E0149","U+E014A","U+E014B","U+E014C","U+E014D","U+E014E","U+E014F",
     "U+E0150","U+E0151","U+E0152","U+E0153","U+E0154","U+E0155","U+E0156","U+E0157","U+E0158",
     "U+E0159","U+E015A","U+E015B","U+E015C","U+E015D","U+E015E","U+E015F","U+E0160","U+E0161",
     "U+E0162","U+E0163","U+E0164","U+E0165","U+E0166","U+E0167","U+E0168","U+E0169","U+E016A",
     "U+E016B","U+E016C","U+E016D","U+E016E","U+E016F","U+E0170","U+E0171","U+E0172","U+E0173",
     "U+E0174","U+E0175","U+E0176","U+E0177","U+E0178","U+E0179","U+E017A","U+E017B","U+E017C",
     "U+E017D","U+E017E","U+E017F","U+E0180","U+E0181","U+E0182","U+E0183","U+E0184","U+E0185",
     "U+E0186","U+E0187","U+E0188","U+E0189","U+E018A","U+E018B","U+E018C","U+E018D","U+E018E",
     "U+E018F","U+E0190","U+E0191","U+E0192","U+E0193","U+E0194","U+E0195","U+E0196","U+E0197",
     "U+E0198","U+E0199","U+E019A","U+E019B","U+E019C","U+E019D","U+E019E","U+E019F","U+E01A0",
     "U+E01A1","U+E01A2","U+E01A3","U+E01A4","U+E01A5","U+E01A6","U+E01A7","U+E01A8","U+E01A9",
     "U+E01AA","U+E01AB","U+E01AC","U+E01AD","U+E01AE","U+E01AF","U+E01B0","U+E01B1","U+E01B2",
     "U+E01B3","U+E01B4","U+E01B5","U+E01B6","U+E01B7","U+E01B8","U+E01B9","U+E01BA","U+E01BB",
     "U+E01BC","U+E01BD","U+E01BE","U+E01BF","U+E01C0","U+E01C1","U+E01C2","U+E01C3","U+E01C4",
     "U+E01C5","U+E01C6","U+E01C7","U+E01C8","U+E01C9","U+E01CA","U+E01CB","U+E01CC","U+E01CD",
     "U+E01CE","U+E01CF","U+E01D0","U+E01D1","U+E01D2","U+E01D3","U+E01D4","U+E01D5","U+E01D6",
     "U+E01D7","U+E01D8","U+E01D9","U+E01DA","U+E01DB","U+E01DC","U+E01DD","U+E01DE","U+E01DF",
     "U+E01E0","U+E01E1","U+E01E2","U+E01E3","U+E01E4","U+E01E5","U+E01E6","U+E01E7","U+E01E8",
     "U+E01E9","U+E01EA","U+E01EB","U+E01EC","U+E01ED","U+E01EE","U+E01EF"}

lower_table ==
    [c \in {CapitalChars[i] : i \in 1..Len(CapitalChars)} |->
        SmallChars[CHOOSE i \in 1..Len(CapitalChars) : CapitalChars[i] = c]]

\* the character str.lower() makes of a character it lowers to one character
lower_char(c) == IF c \in DOMAIN lower_table THEN lower_table[c] ELSE c

\* str.lower() on a string of one character: the capital I with a dot above
\* becomes two characters, an i and the combining dot above
lower_one(c) == IF c = "U+0130" THEN <<"i", "U+0307">> ELSE <<lower_char(c)>>

\* whether the capital sigma at position i of s is lowered to the final
\* sigma: the nearest character before it that is not skipped is cased, and
\* the nearest one after it that is not skipped, if any, is not cased
final_sigma(s, i) ==
    /\ \E j \in 1..(i - 1) :
        /\ s[j] \notin CaseIgnorableChars
        /\ \A k \in (j + 1)..(i - 1) : s[k] \in CaseIgnorableChars
        /\ s[j] \in CasedChars
    /\ \A j \in (i + 1)..Len(s) :
        (/\ s[j] \notin CaseIgnorableChars
         /\ \A k \in (i + 1)..(j - 1) : s[k] \in CaseIgnorableChars)
        => s[j] \notin CasedChars

\* what str.lower() makes of the character at position i of s
lower_at(s, i) ==
    IF s[i] = "Σ" /\ final_sigma(s, i) THEN <<"ς">> ELSE lower_one(s[i])

RECURSIVE lower_from(_, _)
lower_from(s, i) ==
    IF i > Len(s) THEN <<>> ELSE lower_at(s, i) \o lower_from(s, i + 1)

\* str.lower()
lower(s) ==
    IF \A i \in 1..Len(s) : s[i] # "U+0130"
    THEN [i \in 1..Len(s) |-> lower_at(s, i)[1]]
    ELSE lower_from(s, 1)

\* the characters str.strip() and str.split() treat as whitespace
WhitespaceChars ==
    {"\t","\n","","\f","\r","","","",""," ",""," "," ","U+2000","U+2001","U+2002",
     "U+2003","U+2004","U+2005","U+2006","U+2007","U+2008","U+2009","U+200A","U+2028","U+2029",
     "U+202F","U+205F","U+3000"}

is_space(c) == c \in WhitespaceChars

RECURSIVE lstrip(_)
lstrip(s) ==
    IF s # <<>> /\ is_space(Head(s)) THEN lstrip(Tail(s)) ELSE s

RECURSIVE rstrip(_)
rstrip(s) ==
    IF s # <<>> /\ is_space(s[Len(s)]) THEN rstrip(SubSeq(s, 1, Len(s) - 1)) ELSE s

\* str.strip()
strip(s) == rstrip(lstrip(s))

\* the length of the longest prefix of s that holds no whitespace
RECURSIVE token_len(_)
token_len(s) ==
    IF s = <<>> \/ is_space(Head(s)) THEN 0 ELSE 1 + token_len(Tail(s))

\* str.split() with no separator: the maximal runs of non-whitespace
RECURSIVE split(_)
split(s) ==
    LET t == lstrip(s)
        n == token_len(t)
    IN  IF t = <<>> THEN <<>>
        ELSE <<SubSeq(t, 1, n)>> \o split(SubSeq(t, n + 1, Len(t)))

\* str.endswith(suffix)
endswith(w, suffix) ==
    /\ Len(suffix) <= Len(w)
    /\ SubSeq(w, Len(w) - Len(suffix) + 1, Len(w)) = suffix

\* word[:-k] for 1 <= k (empty when k >= len(word))
drop_last(w, k) == IF k >= Len(w) THEN <<>> ELSE SubSeq(w, 1, Len(w) - k)

\* [f(x) for x in s]
map_lower(s) == [i \in 1..Len(s) |-> lower(s[i])]

\* set(s)
to_set(s) == {s[i] : i \in 1..Len(s)}

(***************************************************************************)
(* The Porter stemmer.  Positions are 1-based here and 0-based in Python.  *)
(***************************************************************************)
RECURSIVE is_consonant(_, _)
is_consonant(word, i) ==
    IF i < 1 \/ i > Len(word) THEN FALSE
    ELSE LET char == lower_one(word[i])
         IN  IF char \in {<<"a">>, <<"e">>, <<"i">>, <<"o">>, <<"u">>} THEN FALSE
             ELSE IF char = <<"y">>
                  THEN IF i = 1 THEN TRUE ELSE ~is_consonant(word, i - 1)
                  ELSE TRUE

\* while i < n and is_consonant(word, i): i += 1
RECURSIVE skip_consonants(_, _)
skip_consonants(word, i) ==
    IF i <= Len(word) /\ is_consonant(word, i)
    THEN skip_consonants(word, i + 1) ELSE i

\* while i < n and not is_consonant(word, i): i += 1
RECURSIVE skip_vowels(_, _)
skip_vowels(word, i) ==
    IF i <= Len(word) /\ ~is_consonant(word, i)
    THEN skip_vowels(word, i + 1) ELSE i

\* the VC-counting loop of measure, entered at position i with count m
RECURSIVE count_vc(_, _, _)
count_vc(word, i, m) ==
    IF i > Len(word) THEN m
    ELSE LET j == skip_vowels(word, i)
         IN  IF j > Len(word) THEN m
             ELSE count_vc(word, skip_consonants(word, j), m + 1)

measure(word) ==
    IF Len(word) = 0 THEN 0
    ELSE count_vc(word, skip_consonants(word, 1), 0)

contains_vowel(word) ==
    \E i \in 1..Len(word) : ~is_consonant(word, i)

ends_double_consonant(word) ==
    IF Len(word) < 2 THEN FALSE
    ELSE /\ word[Len(word)] = word[Len(word) - 1]
         /\ is_consonant(word, Len(word))

cvc_ending(word) ==
    IF Len(word) < 3 THEN FALSE
    ELSE LET n == Len(word)
         IN  /\ is_consonant(word, n - 2)
             /\ ~is_consonant(word, n - 1)
             /\ is_consonant(word, n)
             /\ word[n] \notin {"w", "x", "y"}

\* Step 1a: sses -> ss, ies -> i, ss -> ss, s -> ""
step1a(word) ==
    IF endswith(word, <<"s","s","e","s">>) THEN drop_last(word, 2)
    ELSE IF endswith(word, <<"i","e","s">>) THEN drop_last(word, 2)
    ELSE IF endswith(word, <<"s","s">>) THEN word
    ELSE IF endswith(word, <<"s">>) /\ Len(word) > 1 THEN drop_last(word, 1)
    ELSE word

\* the fix-up pass after 'ed' or 'ing' has been removed
step1b_post(word) ==
    IF endswith(word, <<"a","t">>) THEN word \o <<"e">>
    ELSE IF endswith(word, <<"b","l">>) THEN word \o <<"e">>
    ELSE IF endswith(word, <<"i","z">>) THEN word \o <<"e">>
    ELSE IF ends_double_consonant(word) /\ word[Len(word)] \notin {"l", "s", "z"}
         THEN drop_last(word, 1)
    ELSE IF measure(word) = 1 /\ cvc_ending(word) THEN word \o <<"e">>
    ELSE word

\* step 1b trying the 'ed' rule when the measure blocks eed -> ee
step1b_ed_after_eed(word) ==
    IF endswith(word, <<"e","e","d">>) /\ measure(drop_last(word, 3)) > 0
    THEN drop_last(word, 1)
    ELSE IF endswith(word, <<"e","d">>)
    THEN IF contains_vowel(drop_last(word, 2))
         THEN step1b_post(drop_last(word, 2)) ELSE word
    ELSE IF endswith(word, <<"i","n","g">>)
    THEN IF contains_vowel(drop_last(word, 3))
         THEN step1b_post(drop_last(word, 3)) ELSE word
    ELSE word

\* Step 1b: eed -> ee (measure > 0), ed and ing removed after a vowel
step1b(word) ==
    IF endswith(word, <<"e","e","d">>)
    THEN IF measure(drop_last(word, 3)) > 0 THEN drop_last(word, 1) ELSE word
    ELSE IF endswith(word, <<"e","d">>)
    THEN IF contains_vowel(drop_last(word, 2))
         THEN step1b_post(drop_last(word, 2)) ELSE word
    ELSE IF endswith(word, <<"i","n","g">>)
    THEN IF contains_vowel(drop_last(word, 3))
         THEN step1b_post(drop_last(word, 3)) ELSE word
    ELSE word

\* Step 1c: y -> i after a vowel
step1c(word) ==
    IF endswith(word, <<"y">>) /\ contains_vowel(drop_last(word, 1))
    THEN drop_last(word, 1) \o <<"i">>
    ELSE word

step2_rules == <<
    << <<"a","t","i","o","n","a","l">>, <<"a","t","e">> >>,
    << <<"t","i","o","n","a","l">>, <<"t","i","o","n">> >>,
    << <<"e","n","c","i">>, <<"e","n","c","e">> >>,
    << <<"a","n","c","i">>, <<"a","n","c","e">> >>,
    << <<"i","z","e","r">>, <<"i","z","e">> >>,
    << <<"a","b","l","i">>, <<"a","b","l","e">> >>,
    << <<"a","l","l","i">>, <<"a","l">> >>,
    << <<"e","n","t","l","i">>, <<"e","n","t">> >>,
    << <<"e","l","i">>, <<"e">> >>,
    << <<"o","u","s","l","i">>, <<"o","u","s">> >>,
    << <<"i","z","a","t","i","o","n">>, <<"i","z","e">> >>,
    << <<"a","t","i","o","n">>, <<"a","t","e">> >>,
    << <<"a","t","o","r">>, <<"a","t","e">> >>,
    << <<"a","l","i","s","m">>, <<"a","l">> >>,
    << <<"i","v","e","n","e","s","s">>, <<"i","v","e">> >>,
    << <<"f","u","l","n","e","s","s">>, <<"f","u","l">> >>,
    << <<"o","u","s","n","e","s","s">>, <<"o","u","s">> >>,
    << <<"a","l","i","t","i">>, <<"a","l">> >>,
    << <<"i","v","i","t","i">>, <<"i","v","e">> >>,
    << <<"b","i","l","i","t","i">>, <<"b","l","e">> >> >>

step3_rules == <<
    << <<"i","c","a","t","e">>, <<"i","c">> >>,
    << <<"a","t","i","v","e">>, <<>> >>,
    << <<"a","l","i","z","e">>, <<"a","l">> >>,
    << <<"i","c","i","t","i">>, <<"i","c">> >>,
    << <<"i","c","a","l">>, <<"i","c">> >>,
    << <<"f","u","l">>, <<>> >>,
    << <<"n","e","s","s">>, <<>> >> >>

step4_rules == <<
    <<"a","l">>, <<"a","n","c","e">>, <<"e","n","c","e">>, <<"e","r">>,
    <<"i","c">>, <<"a","b","l","e">>, <<"i","b","l","e">>, <<"a","n","t">>,
    <<"e","m","e","n","t">>, <<"m","e","n","t">>, <<"e","n","t">>,
    <<"i","o","n">>, <<"o","u">>, <<"i","s","m">>, <<"a","t","e">>,
    <<"i","t","i">>, <<"o","u","s">>, <<"i","v","e">>, <<"i","z","e">> >>

\* a rule loop that goes on to the later suffixes when the measure of the
\* stem forbids the replacement
RECURSIVE apply_rules_trying_next(_, _, _)
apply_rules_trying_next(word, rules, k) ==
    IF k > Len(rules) THEN word
    ELSE LET suffix == rules[k][1]
             replacement == rules[k][2]
             stem == drop_last(word, Len(suffix))
         IN  IF endswith(word, suffix) /\ measure(stem) > 0
             THEN stem \o replacement
             ELSE apply_rules_trying_next(word, rules, k + 1)

\* a rule loop that appends the replacement to the word, suffix included
RECURSIVE apply_rules_appending(_, _, _)
apply_rules_appending(word, rules, k) ==
    IF k > Len(rules) THEN word
    ELSE LET suffix == rules[k][1]
             replacement == rules[k][2]
             stem == drop_last(word, Len(suffix))
         IN  IF endswith(word, suffix)
             THEN IF measure(stem) > 0 THEN word \o replacement ELSE word
             ELSE apply_rules_appending(word, rules, k + 1)

\* for suffix, replacement in rules: the first suffix the word ends with is
\* replaced when the measure of the stem before it is > 0; then break
RECURSIVE apply_rules(_, _, _)
apply_rules(word, rules, k) ==
    IF k > Len(rules) THEN word
    ELSE LET suffix == rules[k][1]
             replacement == rules[k][2]
             stem == drop_last(word, Len(suffix))
         IN  IF endswith(word, suffix)
             THEN IF measure(stem) > 0 THEN stem \o replacement ELSE word
             ELSE apply_rules(word, rules, k + 1)

step2(word) == apply_rules(word, step2_rules, 1)

step3(word) == apply_rules(word, step3_rules, 1)

\* Step 4: the first suffix the word ends with is removed when the measure of
\* the stem is > 1 ('ion' only after s or t); then break
RECURSIVE step4_from(_, _)
step4_from(word, k) ==
    IF k > Len(step4_rules) THEN word
    ELSE LET suffix == step4_rules[k]
             stem == drop_last(word, Len(suffix))
         IN  IF endswith(word, suffix)
             THEN IF measure(stem) > 1
                  THEN IF suffix = <<"i","o","n">>
                       THEN IF Len(stem) > 0 /\ stem[Len(stem)] \in {"s", "t"}
                            THEN stem ELSE word
                       ELSE stem
                  ELSE word
             ELSE step4_from(word, k + 1)

step4(word) == step4_from(word, 1)

\* Step 5a: a final e is removed when the measure allows it
step5a(word) ==
    IF endswith(word, <<"e">>)
    THEN LET stem == drop_last(word, 1)
             stem_measure == measure(stem)
         IN  IF stem_measure > 1 \/ (stem_measure = 1 /\ ~cvc_ending(stem))
             THEN stem ELSE word
    ELSE word

\* Step 5b: ll -> l when the measure is > 1
step5b(word) ==
    IF measure(word) > 1 /\ ends_double_consonant(word) /\ endswith(word, <<"l">>)
    THEN drop_last(word, 1)
    ELSE word

\* the rule cascade applied to a word of any length
stem_term_any_length(word) ==
    step5b(step5a(step4(step3(step2(step1c(step1b(step1a(lower(word)))))))))

stem_term(word) ==
    IF Len(word) <= 2 THEN lower(word)
    ELSE step5b(step5a(step4(step3(step2(step1c(step1b(step1a(lower(word)))))))))

(***************************************************************************)
(* Documents and collections.  The Document class (document.py) is not     *)
(* part of the sources at hand: a document is the record of section 3 of   *)
(* the specification, with the derived views empty until they are written. *)
(***************************************************************************)
new_document(id, terms) ==
    [document_id |-> id,
     terms |-> terms,
     filtered_terms |-> <<>>,
     stemmed_terms |-> <<>>,
     filtered_stemmed_terms |-> <<>>]

\* document_id = 0, 1, ... in the order of the matches
load_documents(term_lists) ==
    [i \in 1..Len(term_lists) |-> new_document(i - 1, term_lists[i])]

(***************************************************************************)
(* Stemming of a document (stemming.py).                                   *)
(***************************************************************************)
w_the == <<"t","h","e">>
w_cat == <<"c","a","t">>
w_cats == <<"c","a","t","s">>
w_dog == <<"d","o","g">>
w_ran == <<"r","a","n">>
w_sat == <<"s","a","t">>
w_played == <<"p","l","a","y","e","d">>
w_zebra == <<"z","e","b","r","a">>

\* the words of the model's documents and queries
Vocabulary ==
    {w_the, w_cat, w_cats, w_dog, w_ran, w_sat, w_played, w_zebra}

\* stem_term is a pure function: its values on the vocabulary are computed once
stem_memo == [w \in Vocabulary |-> stem_term(w)]

stem(word) == IF word \in Vocabulary THEN stem_memo[word] ELSE stem_term(word)

\* [stem_term(term) for term in terms]
stem_all(terms) == [i \in 1..Len(terms) |-> stem(terms[i])]

\* stemming that replaces the terms by their stems
apply_stemming_in_place(doc) ==
    [doc EXCEPT !.terms = stem_all(doc.terms), !.stemmed_terms = stem_all(doc.terms)]

apply_stemming(doc) ==
    [doc EXCEPT !.stemmed_terms = stem_all(doc.terms)]

apply_stemming_filtered(doc) ==
    [doc EXCEPT !.filtered_stemmed_terms = stem_all(doc.filtered_terms)]

(***************************************************************************)
(* Stopword filters (stopwords.py).  A threshold is a fraction <<p, q>>,   *)
(* q > 0; count / total >= p / q is decided on the integers.               *)
(***************************************************************************)
\* [f(term) for term in terms if keep(term)], for the two filters
RECURSIVE keep_lowered(_, _)
keep_lowered(terms, removed) ==
    IF terms = <<>> THEN <<>>
    ELSE IF removed[1]
         THEN keep_lowered(Tail(terms), Tail(removed))
         ELSE <<lower(Head(terms))>> \o keep_lowered(Tail(terms), Tail(removed))

\* the list filter looking the term up as it is written
remove_stopwords_by_list_exact(doc, stopwords) ==
    [doc EXCEPT !.filtered_terms =
        keep_lowered(doc.terms,
                     [i \in 1..Len(doc.terms) |-> doc.terms[i] \in stopwords])]

remove_stopwords_by_list(doc, stopwords) ==
    [doc EXCEPT !.filtered_terms =
        keep_lowered(doc.terms,
                     [i \in 1..Len(doc.terms) |-> lower(doc.terms[i]) \in stopwords])]

\* a / b > p / q
frac_gt(a, b, t) == a * t[2] > t[1] * b

\* a / b >= p / q  and  a / b <= p / q,  for b > 0 and q > 0
frac_geq(a, b, t) == a * t[2] >= t[1] * b

frac_leq(a, b, t) == a * t[2] <= t[1] * b

\* document counts taken from the filtered terms of the documents that
\* have some
term_doc_count_of_filtered(coll, term) ==
    Cardinality({i \in 1..Len(coll) :
        term \in to_set(IF coll[i].filtered_terms # <<>>
                        THEN coll[i].filtered_terms ELSE coll[i].terms)})

\* term_doc_counts: the number of documents whose terms hold the term
term_doc_count(coll, term) ==
    Cardinality({i \in 1..Len(coll) : term \in to_set(coll[i].terms)})

\* the terms of the reference collection that are too common or too rare
frequency_stopwords(coll, rare_frequency, common_frequency) ==
    {term \in UNION {to_set(coll[i].terms) : i \in 1..Len(coll)} :
        \/ frac_geq(term_doc_count(coll, term), Len(coll), common_frequency)
        \/ frac_leq(term_doc_count(coll, term), Len(coll), rare_frequency)}

\* the frequency filter filtering what an earlier filter left
remove_stopwords_by_frequency_additive(doc, coll, rare_frequency, common_frequency) ==
    LET terms == IF doc.filtered_terms # <<>> THEN doc.filtered_terms ELSE doc.terms
    IN  IF Len(coll) = 0
        THEN [doc EXCEPT !.filtered_terms = <<>>]
        ELSE [doc EXCEPT !.filtered_terms =
                keep_lowered(terms,
                    [i \in 1..Len(terms) |->
                        terms[i] \in
                            frequency_stopwords(coll, rare_frequency, common_frequency)])]

\* the frequency filter without its test of an empty collection
remove_stopwords_by_frequency_unchecked(doc, coll, rare_frequency, common_frequency) ==
    [doc EXCEPT !.filtered_terms =
        keep_lowered(doc.terms,
            [i \in 1..Len(doc.terms) |->
                doc.terms[i] \in
                    frequency_stopwords(coll, rare_frequency, common_frequency)])]

remove_stopwords_by_frequency(doc, coll, rare_frequency, common_frequency) ==
    IF Len(coll) = 0
    THEN [doc EXCEPT !.filtered_terms = <<>>]
    ELSE [doc EXCEPT !.filtered_terms =
            keep_lowered(doc.terms,
                [i \in 1..Len(doc.terms) |->
                    doc.terms[i] \in
                        frequency_stopwords(coll, rare_frequency, common_frequency)])]

(***************************************************************************)
(* Boolean search (retrieval.py).  A result pair <<score, i>> holds the    *)
(* score and the position i of the Document object in the collection.      *)
(***************************************************************************)
\* query.lower().strip().split()
parse_query(query) == split(strip(lower(query)))

\* the terms list the scan of linear_boolean_search reads for one document
terms_to_search(doc, stopword_filtered, stemmed) ==
    IF stemmed /\ stopword_filtered
    THEN IF doc.filtered_stemmed_terms # <<>>
         THEN doc.filtered_stemmed_terms
         ELSE IF doc.filtered_terms # <<>>
              THEN stem_all(doc.filtered_terms)
              ELSE <<>>
    ELSE IF stemmed
    THEN IF doc.stemmed_terms # <<>>
         THEN doc.stemmed_terms
         ELSE stem_all(doc.terms)
    ELSE IF stopword_filtered
    THEN doc.filtered_terms
    ELSE doc.terms

\* mutant: any() instead of all(), a disjunctive OR search
any_term_found(query_terms, doc, stopword_filtered, stemmed) ==
    LET lowercase_terms_set ==
            to_set(map_lower(terms_to_search(doc, stopword_filtered, stemmed)))
    IN  \E k \in 1..Len(query_terms) : query_terms[k] \in lowercase_terms_set

\* all(term in lowercase_terms_set for term in query_terms)
all_terms_found(query_terms, doc, stopword_filtered, stemmed) ==
    LET lowercase_terms_set ==
            to_set(map_lower(terms_to_search(doc, stopword_filtered, stemmed)))
    IN  \A k \in 1..Len(query_terms) : query_terms[k] \in lowercase_terms_set

is_match(pair) == pair[1] = 1

\* the linear scan: one (score, doc) pair per document, in collection order
scan_results(query_terms, coll, stopword_filtered, stemmed) ==
    [i \in 1..Len(coll) |->
        IF all_terms_found(query_terms, coll[i], stopword_filtered, stemmed)
        THEN <<1, i>> ELSE <<0, i>>]

\* mutant: every search returns only the matching documents
return_matches_only(results, stemmed) == SelectSeq(results, is_match)

\* mutant: every search returns all the documents
return_all(results, stemmed) == results

\* stemmed searches return only the matching documents
boolean_return(results, stemmed) ==
    IF stemmed THEN SelectSeq(results, is_match) ELSE results

\* mutant: the empty query is not handled before the scan
search_without_empty_check(query, coll, stopword_filtered, stemmed) ==
    LET parsed == parse_query(query)
        query_terms == IF stemmed THEN stem_all(parsed) ELSE parsed
    IN  boolean_return(
            scan_results(query_terms, coll, stopword_filtered, stemmed),
            stemmed)

linear_boolean_search(query, coll, stopword_filtered, stemmed) ==
    LET parsed == parse_query(query)
        query_terms == IF stemmed THEN stem_all(parsed) ELSE parsed
    IN  IF parsed = <<>>
        THEN [i \in 1..Len(coll) |-> <<0, i>>]
        ELSE boolean_return(
                 scan_results(query_terms, coll, stopword_filtered, stemmed),
                 stemmed)

(***************************************************************************)
(* Vector Space search (retrieval.py).  math.log is the natural logarithm  *)
(* in units of 1/Scale: ln_units[n] = round(Scale * ln n), and the log of  *)
(* a quotient of two counts is the difference of their logarithms.         *)
(***************************************************************************)
Scale == 10000

ln_units == <<0, 6931, 10986, 13863, 16094, 17918, 19459, 20794,
              21972, 23026, 23979, 24849, 25649, 26391, 27081, 27726>>

\* math.log(total_docs / df)
log_ratio(total_docs, df) == ln_units[total_docs] - ln_units[df]

\* the lowercased terms list vector_space_search indexes for one document
index_terms(doc, stopword_filtered, stemmed) ==
    map_lower(
        IF stemmed /\ stopword_filtered
        THEN IF doc.filtered_stemmed_terms # <<>>
             THEN doc.filtered_stemmed_terms
             ELSE IF doc.filtered_terms # <<>>
                  THEN stem_all(doc.filtered_terms)
                  ELSE <<>>
        ELSE IF stemmed
        THEN IF doc.stemmed_terms # <<>>
             THEN doc.stemmed_terms
             ELSE stem_all(doc.terms)
        ELSE IF stopword_filtered
        THEN doc.filtered_terms
        ELSE doc.terms)

\* term_counts[term] of one document
term_count(terms, term) ==
    Cardinality({k \in 1..Len(terms) : terms[k] = term})

has_posting(posting) == posting[2] > 0

\* inverted_index[term]: the <<doc_id, tf>> of the documents that hold the
\* term, in the order of the collection
inverted_index(coll, stopword_filtered, stemmed, term) ==
    SelectSeq(
        [i \in 1..Len(coll) |->
            <<coll[i].document_id,
              term_count(index_terms(coll[i], stopword_filtered, stemmed), term)>>],
        has_posting)

\* mutant: the document frequency counts occurrences, not documents
RECURSIVE occurrence_count(_)
occurrence_count(postings) ==
    IF postings = <<>> THEN 0
    ELSE Head(postings)[2] + occurrence_count(Tail(postings))

\* doc_frequencies[term] = len(inverted_index[term])
doc_frequency(postings) == Len(postings)

\* idf = math.log(total_docs / df) if df > 0 else 0
\* an idf smoothed by one more document
idf_of_smoothed(total_docs, df) == IF df > 0 THEN log_ratio(total_docs + 1, df) ELSE 0

idf_of(total_docs, df) == IF df > 0 THEN log_ratio(total_docs, df) ELSE 0

\* mutant: the logarithm of tf is subtracted
tf_weight_minus_log(tf) == IF tf > 0 THEN Scale - ln_units[tf] ELSE 0

\* tf_weight = 1 + math.log(tf) if tf > 0 else 0
tf_weight(tf) == IF tf > 0 THEN Scale + ln_units[tf] ELSE 0

\* tf_idf = tf_weight * idf
tf_idf(tf, idf) == (tf_weight(tf) * idf) \div Scale

\* mutant: every posting of the term is added to the document's score
RECURSIVE postings_score_any_doc(_, _, _)
postings_score_any_doc(postings, idf, doc_id) ==
    IF postings = <<>> THEN 0
    ELSE tf_idf(Head(postings)[2], idf)
         + postings_score_any_doc(Tail(postings), idf, doc_id)

\* what the postings of one query term add to doc_scores[doc_id]
RECURSIVE postings_score(_, _, _)
postings_score(postings, idf, doc_id) ==
    IF postings = <<>> THEN 0
    ELSE (IF Head(postings)[1] = doc_id THEN tf_idf(Head(postings)[2], idf) ELSE 0)
         + postings_score(Tail(postings), idf, doc_id)

\* doc_scores[doc_id] after the loop over query_terms
RECURSIVE doc_score(_, _, _, _, _)
doc_score(query_terms, coll, stopword_filtered, stemmed, doc_id) ==
    IF query_terms = <<>> THEN 0
    ELSE LET postings ==
                 inverted_index(coll, stopword_filtered, stemmed, Head(query_terms))
             idf == idf_of(Len(coll), doc_frequency(postings))
         IN  (IF postings = <<>> THEN 0
              ELSE postings_score(postings, idf, doc_id))
             + doc_score(Tail(query_terms), coll, stopword_filtered, stemmed, doc_id)

by_descending_score(p, q) == p[1] > q[1]

\* mutant: the list is sorted by descending score before it is returned
score_list_sorted(query_terms, coll, stopword_filtered, stemmed) ==
    SortSeq([i \in 1..Len(coll) |->
                <<doc_score(query_terms, coll, stopword_filtered, stemmed,
                            coll[i].document_id), i>>],
            by_descending_score)

\* the results list: for doc in collection: (doc_scores.get(id, 0.0), doc)
score_list(query_terms, coll, stopword_filtered, stemmed) ==
    [i \in 1..Len(coll) |->
        <<doc_score(query_terms, coll, stopword_filtered, stemmed,
                    coll[i].document_id), i>>]

vector_space_search(query, coll, stopword_filtered, stemmed) ==
    LET parsed == parse_query(query)
        query_terms == IF stemmed THEN stem_all(parsed) ELSE parsed
    IN  IF coll = <<>> THEN <<>>
        ELSE IF parsed = <<>>
        THEN [i \in 1..Len(coll) |-> <<0, i>>]
        ELSE score_list(query_terms, coll, stopword_filtered, stemmed)

(***************************************************************************)
(* The inputs of the model.                                                *)
(***************************************************************************)
MaxDocs == 3

\* the terms of the documents a collection is built from
TermLists ==
    { <<w_the, w_cat, w_sat>>,
      <<w_the, w_dog, w_ran>>,
      <<w_cat, w_dog, w_played>>,
      <<w_cats, w_cat, w_cat>> }

Collections ==
    {load_documents(tl) : tl \in UNION {[1..n -> TermLists] : n \in 0..MaxDocs}}

StopwordSets == { {w_the}, {w_cat, w_dog} }

\* <<rare_frequency, common_frequency>>, each a fraction <<p, q>>
Thresholds == { << <<0, 1>>, <<1, 2>> >> }

Queries ==
    { <<>>,
      <<" ", " ">>,
      <<"T","h","e">> \o <<" ", " ">> \o w_cat,
      w_cats \o <<" ">> \o w_dog,
      <<" ">> \o w_cat \o <<" ">> \o w_zebra \o <<" ">> \o w_cat }

(***************************************************************************)
(* The state: the collection of the session and the value of the last      *)
(* call while its caller holds it.  The session is single-threaded: a call *)
(* is made once the value of the previous call has been taken.  base is    *)
(* used when the searches of two collections are compared: the baseline    *)
(* collection, its result, and the document the two collections differ in. *)
(***************************************************************************)
VARIABLES collection, ret, base

vars == <<collection, ret, base>>

no_base == [collection |-> <<>>, doc |-> 0, results |-> <<>>]

no_return ==
    [op |-> "none", query |-> <<>>, stopword_filtered |-> FALSE,
     stemmed |-> FALSE, results |-> <<>>]

Init ==
    /\ collection \in Collections
    /\ ret = no_return
    /\ base = no_base

\* for doc in self.collection: remove_stopwords_by_list(doc, stopwords)
RemoveStopwordsByList ==
    \E stopwords \in StopwordSets :
        /\ ret.op = "none"
        /\ collection' = [i \in 1..Len(collection) |->
                            remove_stopwords_by_list(collection[i], stopwords)]
        /\ UNCHANGED <<ret, base>>

\* for doc in self.collection:
\*     remove_stopwords_by_frequency(doc, self.collection, rare_freq, common_freq)
RemoveStopwordsByFrequency ==
    \E t \in Thresholds :
        /\ ret.op = "none"
        /\ collection' = [i \in 1..Len(collection) |->
                            remove_stopwords_by_frequency(collection[i], collection,
                                                          t[1], t[2])]
        /\ UNCHANGED <<ret, base>>

\* for doc in self.collection: apply_stemming(doc)
ApplyStemming ==
    /\ ret.op = "none"
    /\ collection' = [i \in 1..Len(collection) |-> apply_stemming(collection[i])]
    /\ UNCHANGED <<ret, base>>

\* choice 2 of handle_stemming: refused unless some document has filtered
\* terms, then for doc in self.collection: apply_stemming_filtered(doc)
ApplyStemmingFiltered ==
    /\ ret.op = "none"
    /\ \E i \in 1..Len(collection) : Len(collection[i].filtered_terms) > 0
    /\ collection' = [i \in 1..Len(collection) |->
                        apply_stemming_filtered(collection[i])]
    /\ UNCHANGED <<ret, base>>

LinearBooleanSearch ==
    \E query \in Queries, stopword_filtered \in BOOLEAN, stemmed \in BOOLEAN :
        /\ ret.op = "none"
        /\ ret' = [op |-> "boolean", query |-> query,
                   stopword_filtered |-> stopword_filtered, stemmed |-> stemmed,
                   results |-> linear_boolean_search(query, collection,
                                                     stopword_filtered, stemmed)]
        /\ UNCHANGED <<collection, base>>

VectorSpaceSearch ==
    \E query \in Queries, stopword_filtered \in BOOLEAN, stemmed \in BOOLEAN :
        /\ ret.op = "none"
        /\ ret' = [op |-> "vsm", query |-> query,
                   stopword_filtered |-> stopword_filtered, stemmed |-> stemmed,
                   results |-> vector_space_search(query, collection,
                                                   stopword_filtered, stemmed)]
        /\ UNCHANGED <<collection, base>>

\* the caller takes the returned list
TakeResult ==
    /\ ret.op # "none"
    /\ ret' = no_return
    /\ UNCHANGED <<collection, base>>

Next ==
    \/ RemoveStopwordsByList
    \/ RemoveStopwordsByFrequency
    \/ ApplyStemming
    \/ ApplyStemmingFiltered
    \/ LinearBooleanSearch
    \/ VectorSpaceSearch
    \/ TakeResult

Spec == Init /\ [][Next]_vars

(***************************************************************************)
(* The comparison of two collections under vector_space_search: the second *)
(* is loaded from the texts of the first with one more word in one         *)
(* document, and both are prepared by the same calls.                      *)
(***************************************************************************)
Preparations == {"none", "filter", "stem", "filter_stem"}

\* the words a document of the second collection may hold in addition
MoreWords == {w_cats, w_the}

prepare(coll, preparation) ==
    LET filtered == [i \in 1..Len(coll) |->
                        remove_stopwords_by_list(coll[i], {w_the})]
    IN  IF preparation = "filter" THEN filtered
        ELSE IF preparation = "stem"
        THEN [i \in 1..Len(coll) |-> apply_stemming(coll[i])]
        ELSE IF preparation = "filter_stem"
        THEN [i \in 1..Len(coll) |-> apply_stemming_filtered(filtered[i])]
        ELSE coll

MonoInit ==
    \E n \in 1..MaxDocs :
      \E term_lists \in [1..n -> TermLists], i \in 1..n,
         word \in MoreWords, preparation \in Preparations :
        /\ base = [collection |-> prepare(load_documents(term_lists), preparation),
                   doc |-> i, results |-> <<>>]
        /\ collection =
             prepare(load_documents(
                         [term_lists EXCEPT ![i] = term_lists[i] \o <<word>>]),
                     preparation)
        /\ ret = no_return

\* the same search of the baseline collection and of the second collection
CompareSearch ==
    \E query \in Queries, stopword_filtered \in BOOLEAN, stemmed \in BOOLEAN :
        /\ ret.op = "none"
        /\ ret' = [op |-> "vsm", query |-> query,
                   stopword_filtered |-> stopword_filtered, stemmed |-> stemmed,
                   results |-> vector_space_search(query, collection,
                                                   stopword_filtered, stemmed)]
        /\ base' = [base EXCEPT !.results =
                       vector_space_search(query, base.collection,
                                           stopword_filtered, stemmed)]
        /\ UNCHANGED collection

MonoNext == CompareSearch

SpecMono == MonoInit /\ [][MonoNext]_vars
(***************************************************************************)
(* What the claims speak of, stated without the code's route: the terms of *)
(* a query are the maximal runs of non-whitespace of the lowercased query. *)
(***************************************************************************)
TokenStarts(q) ==
    {a \in 1..Len(q) : ~is_space(q[a]) /\ (a = 1 \/ is_space(q[a - 1]))}

TokenEnd(q, a) ==
    CHOOSE b \in a..Len(q) :
        /\ \A c \in a..b : ~is_space(q[c])
        /\ (b = Len(q) \/ is_space(q[b + 1]))

TokenAt(q, a) == SubSeq(lower(q), a, TokenEnd(q, a))

\* the set of the query's terms
QueryTerms(q) == {TokenAt(q, a) : a \in TokenStarts(q)}

\* a query term as it is looked up: stemmed when the stemmed view is asked for
Looked(t, stemmed) == IF stemmed THEN stem(t) ELSE t

\* the raw, the filtered and the stemmed view of a document, as sets
RawView(doc) == to_set(doc.terms)

FilteredView(doc) == to_set(doc.filtered_terms)

StemmedView(doc) == {stem(doc.terms[k]) : k \in 1..Len(doc.terms)}

\* the stems of the document's current filtered_terms
FilteredStemmedView(doc) ==
    {stem(doc.filtered_terms[k]) : k \in 1..Len(doc.filtered_terms)}

ViewOf(doc, stopword_filtered, stemmed) ==
    IF stemmed /\ stopword_filtered THEN FilteredStemmedView(doc)
    ELSE IF stemmed THEN StemmedView(doc)
    ELSE IF stopword_filtered THEN FilteredView(doc)
    ELSE RawView(doc)

\* document i of the collection is in the returned list with score 1
Reported(i) == \E k \in 1..Len(ret.results) : ret.results[k] = <<1, i>>

\* every term of the last query is in the view of document i
HoldsAll(i) ==
    \A t \in QueryTerms(ret.query) :
        Looked(t, ret.stemmed)
            \in ViewOf(collection[i], ret.stopword_filtered, ret.stemmed)

\* some term of the last query is in the view of document i
HoldsSome(i) ==
    \E t \in QueryTerms(ret.query) :
        Looked(t, ret.stemmed)
            \in ViewOf(collection[i], ret.stopword_filtered, ret.stemmed)

\* C1: Boolean AND semantics.  After linear_boolean_search on a query with at
\* least one term, in the raw, the filtered and the stemmed view, a document
\* is reported with score 1 iff every query term (lowercased, stemmed when
\* stemmed) is a member of its view; a document holding only some of the
\* terms is not reported.
C1_BooleanAnd ==
    (/\ ret.op = "boolean"
     /\ QueryTerms(ret.query) # {}
     /\ ~(ret.stemmed /\ ret.stopword_filtered))
    => \A i \in 1..Len(collection) : Reported(i) <=> HoldsAll(i)

\* a two-term search reports one document and leaves out one that holds only
\* one of the two terms
C1_Witness ==
    /\ ret.op = "boolean"
    /\ Cardinality(QueryTerms(ret.query)) >= 2
    /\ ~(ret.stemmed /\ ret.stopword_filtered)
    /\ \E i, j \in 1..Len(collection) :
        /\ Reported(i) /\ HoldsAll(i)
        /\ ~Reported(j) /\ HoldsSome(j) /\ ~HoldsAll(j)

\* C2: unstemmed return shape.  linear_boolean_search with stemmed=False
\* returns one pair per document, the i-th pair holding the i-th document,
\* each score 0 or 1.
C2_UnstemmedShape ==
    (ret.op = "boolean" /\ ~ret.stemmed)
    => /\ Len(ret.results) = Len(collection)
       /\ \A i \in 1..Len(ret.results) :
            /\ ret.results[i][2] = i
            /\ ret.results[i][1] \in {0, 1}

\* an unstemmed search of a non-empty query returned a 1 and a 0
C2_Witness ==
    /\ ret.op = "boolean" /\ ~ret.stemmed
    /\ QueryTerms(ret.query) # {}
    /\ \E i, j \in 1..Len(ret.results) :
        ret.results[i][1] = 1 /\ ret.results[j][1] = 0

\* document i holds every looked-up term of the last query in the terms list
\* the search reads for it
MatchesSearched(i) ==
    \A t \in QueryTerms(ret.query) :
        Looked(t, ret.stemmed) \in
            to_set(terms_to_search(collection[i], ret.stopword_filtered,
                                   ret.stemmed))

\* C3 as stated: for every query, the empty and the whitespace-only too, a
\* stemmed linear_boolean_search returns only pairs of score 1.
C3_StemmedShapeAnyQuery ==
    (ret.op = "boolean" /\ ret.stemmed)
    => \A k \in 1..Len(ret.results) : ret.results[k][1] = 1

\* C3 amended: for every query with at least one term, a stemmed
\* linear_boolean_search returns only pairs of score 1, and exactly the
\* documents that hold every stemmed query term in the searched terms list,
\* in the order of the collection.
C3_StemmedShape ==
    (ret.op = "boolean" /\ ret.stemmed /\ QueryTerms(ret.query) # {})
    => /\ \A k \in 1..Len(ret.results) :
            /\ ret.results[k][1] = 1
            /\ ret.results[k][2] \in 1..Len(collection)
            /\ MatchesSearched(ret.results[k][2])
       /\ \A k \in 1..(Len(ret.results) - 1) :
            ret.results[k][2] < ret.results[k + 1][2]

\* a stemmed search of a non-empty query returned some documents, not all
C3_Witness ==
    /\ ret.op = "boolean" /\ ret.stemmed
    /\ QueryTerms(ret.query) # {}
    /\ Len(ret.results) > 0
    /\ Len(ret.results) < Len(collection)

\* C4: the empty query is degenerate.  For an empty or whitespace-only query
\* both searches, under every flag combination and on every non-empty
\* collection, return one pair per document, in input order, each of score 0.
C4_EmptyQuery ==
    (/\ ret.op \in {"boolean", "vsm"}
     /\ QueryTerms(ret.query) = {}
     /\ collection # <<>>)
    => ret.results = [i \in 1..Len(collection) |-> <<0, i>>]

\* a whitespace-only query was searched with stemmed=True in a collection of
\* several documents
C4_Witness ==
    /\ ret.op \in {"boolean", "vsm"}
    /\ ret.query # <<>> /\ QueryTerms(ret.query) = {}
    /\ ret.stemmed
    /\ Len(collection) >= 2
    /\ Len(ret.results) = Len(collection)

\* C5 as stated: filtered+stemmed freshness.  After any sequence of filter
\* and stemming calls, a Boolean search with stopword_filtered=True and
\* stemmed=True reports a document iff every stemmed query term is in the
\* set of stems of the document's current filtered_terms.
C5_FilteredStemmedFresh ==
    (/\ ret.op = "boolean"
     /\ ret.stemmed /\ ret.stopword_filtered
     /\ QueryTerms(ret.query) # {})
    => \A i \in 1..Len(collection) : Reported(i) <=> HoldsAll(i)

\* C6: VSM result shape.  vector_space_search returns one pair per document
\* of the collection, the i-th pair holding the i-th document whatever the
\* scores are, and the empty list for the empty collection.
C6_VsmShape ==
    ret.op = "vsm"
    => /\ Len(ret.results) = Len(collection)
       /\ \A i \in 1..Len(ret.results) : ret.results[i][2] = i

\* a VSM search returned a lower score before a higher one
C6_Witness ==
    /\ ret.op = "vsm"
    /\ \E i \in 1..(Len(ret.results) - 1) :
        ret.results[i][1] < ret.results[i + 1][1]

\* C7 as stated: the list vector_space_search returns is sorted by descending
\* score.
C7_SortedDescending ==
    ret.op = "vsm"
    => \A k \in 1..(Len(ret.results) - 1) :
        ret.results[k][1] >= ret.results[k + 1][1]

\* the terms list a search selects for a document: the stored view, the stems
\* of the filtered terms when no filtered+stemmed view is stored
SelectedTerms(doc, stopword_filtered, stemmed) ==
    IF stemmed /\ stopword_filtered
    THEN IF Len(doc.filtered_stemmed_terms) > 0
         THEN doc.filtered_stemmed_terms
         ELSE [k \in 1..Len(doc.filtered_terms) |-> stem(doc.filtered_terms[k])]
    ELSE IF stemmed
    THEN [k \in 1..Len(doc.terms) |-> stem(doc.terms[k])]
    ELSE IF stopword_filtered THEN doc.filtered_terms
    ELSE doc.terms

\* tf(t, d): the occurrences of t in the selected view of document i
Tf(t, i) ==
    LET view == SelectedTerms(collection[i], ret.stopword_filtered, ret.stemmed)
    IN  Cardinality({k \in 1..Len(view) : view[k] = t})

\* df(t): the documents whose selected view holds t at least once
Df(t) == Cardinality({j \in 1..Len(collection) : Tf(t, j) > 0})

RECURSIVE JoinTerms(_)
JoinTerms(terms) ==
    IF terms = <<>> THEN <<>>
    ELSE IF Len(terms) = 1 THEN terms[1]
    ELSE terms[1] \o <<" ">> \o JoinTerms(Tail(terms))

KnownTerm(t) == Df(Looked(t, ret.stemmed)) > 0

\* the last query without the terms that occur in no selected view
KnownOnly(q) == JoinTerms(SelectSeq(split(lower(q)), KnownTerm))

\* C8: unknown terms and absent documents in VSM.  The result equals that of
\* the same query with the terms that occur in no document's selected view
\* removed, and a document whose selected view holds none of the query terms
\* has score 0.
C8_UnknownTerms ==
    ret.op = "vsm"
    => /\ ret.results =
            vector_space_search(KnownOnly(ret.query), collection,
                                ret.stopword_filtered, ret.stemmed)
       /\ \A i \in 1..Len(ret.results) :
            (\A t \in QueryTerms(ret.query) : Tf(Looked(t, ret.stemmed), i) = 0)
            => ret.results[i][1] = 0

\* a query with a known and an unknown term gave one document a positive
\* score and a document without any of its terms the score 0
C8_Witness ==
    /\ ret.op = "vsm"
    /\ \E t \in QueryTerms(ret.query) : ~KnownTerm(t)
    /\ \E t \in QueryTerms(ret.query) : KnownTerm(t)
    /\ \E i, j \in 1..Len(ret.results) :
        /\ ret.results[i][1] > 0
        /\ ret.results[j][1] = 0
        /\ \A t \in QueryTerms(ret.query) : Tf(Looked(t, ret.stemmed), j) = 0

\* (1 + ln tf(t, d)) * ln(N / df(t)), 0 when d has no posting for t
Weight(t, i) ==
    IF Tf(t, i) = 0 THEN 0
    ELSE ((Scale + ln_units[Tf(t, i)])
            * (ln_units[Len(collection)] - ln_units[Df(t)])) \div Scale

\* the sum of Weight over the occurrences of terms in the query
RECURSIVE FormulaScore(_, _, _)
FormulaScore(q, starts, i) ==
    IF starts = {} THEN 0
    ELSE LET a == CHOOSE x \in starts : TRUE
         IN  Weight(Looked(TokenAt(q, a), ret.stemmed), i)
             + FormulaScore(q, starts \ {a}, i)

\* C9: the VSM scoring formula.  The score of every document is the sum, over
\* the occurrences of terms in the query, of (1 + ln tf) * ln(N / df) with N
\* the number of documents, tf the occurrences of the term in the document's
\* selected view and df the number of documents whose view holds the term.
C9_ScoringFormula ==
    (ret.op = "vsm" /\ QueryTerms(ret.query) # {})
    => \A i \in 1..Len(ret.results) :
        ret.results[i][1] = FormulaScore(ret.query, TokenStarts(ret.query), i)

\* a query that repeats a term scored a document that holds the term several
\* times, while fewer documents hold the term than it has occurrences
C9_Witness ==
    /\ ret.op = "vsm"
    /\ Cardinality(TokenStarts(ret.query)) > Cardinality(QueryTerms(ret.query))
    /\ \E i \in 1..Len(ret.results), t \in QueryTerms(ret.query) :
        /\ Tf(Looked(t, ret.stemmed), i) >= 2
        /\ Df(Looked(t, ret.stemmed)) < Len(collection)
        /\ ret.results[i][1] > 0

\* the occurrences of t in a terms list
CountIn(view, t) == Cardinality({k \in 1..Len(view) : view[k] = t})

BaseView(j) ==
    SelectedTerms(base.collection[j], ret.stopword_filtered, ret.stemmed)

MoreView(j) ==
    SelectedTerms(collection[j], ret.stopword_filtered, ret.stemmed)

\* the two collections differ only in that document base.doc holds more
\* occurrences of the looked-up query term t in the second collection
OnlyMoreOf(t) ==
    /\ Len(collection) = Len(base.collection)
    /\ \A j \in 1..Len(collection) : j # base.doc => MoreView(j) = BaseView(j)
    /\ CountIn(MoreView(base.doc), t) > CountIn(BaseView(base.doc), t)
    /\ \A u \in to_set(MoreView(base.doc)) \cup to_set(BaseView(base.doc)) :
        u # t => CountIn(MoreView(base.doc), u) = CountIn(BaseView(base.doc), u)

\* C10: VSM scoring monotonicity.  For a fixed query and two collections
\* that differ only in that one document holds more occurrences of a query
\* term in the second, the document's score in the second collection is not
\* lower than in the first.
C10_Monotone ==
    (/\ ret.op = "vsm"
     /\ \E t \in QueryTerms(ret.query) : OnlyMoreOf(Looked(t, ret.stemmed)))
    => ret.results[base.doc][1] >= base.results[base.doc][1]

\* a document that held a query term already scores strictly higher with one
\* more occurrence of it
C10_Witness ==
    /\ ret.op = "vsm"
    /\ \E t \in QueryTerms(ret.query) :
        /\ OnlyMoreOf(Looked(t, ret.stemmed))
        /\ CountIn(BaseView(base.doc), Looked(t, ret.stemmed)) >= 1
    /\ ret.results[base.doc][1] > base.results[base.doc][1]

(***************************************************************************)
(* Precision and recall (retrieval.py).  The two quotients are floats in   *)
(* the code: here they are numbers of 1/Scale, rounded to the nearest.  A  *)
(* division by zero raises ZeroDivisionError in the code: raised tells it. *)
(***************************************************************************)
\* return precision, recall
returned(precision, recall) ==
    [raised |-> FALSE, precision |-> precision, recall |-> recall]

\* a / b raised ZeroDivisionError: nothing is returned
zero_division == [raised |-> TRUE, precision |-> 0, recall |-> 0]

\* len(intersection) / len(ids), for len(ids) > 0
quotient(a, b) == (2 * Scale * a + b) \div (2 * b)

\* precision = len(intersection) / len(retrieved_ids)
\* recall = len(intersection) / len(relevant_ids)
divide_both(intersection, retrieved_ids, relevant_ids) ==
    IF Cardinality(retrieved_ids) = 0 \/ Cardinality(relevant_ids) = 0
    THEN zero_division
    ELSE returned(quotient(Cardinality(intersection), Cardinality(retrieved_ids)),
                  quotient(Cardinality(intersection), Cardinality(relevant_ids)))

\* precision_recall without its test of an empty relevant set
precision_recall_unchecked(retrieved_ids, relevant_ids) ==
    IF retrieved_ids = {} /\ relevant_ids = {} THEN returned(0, 0)
    ELSE IF retrieved_ids = {} THEN returned(0, 0)
    ELSE divide_both(retrieved_ids \cap relevant_ids, retrieved_ids, relevant_ids)

precision_recall(retrieved_ids, relevant_ids) ==
    IF retrieved_ids = {} /\ relevant_ids = {} THEN returned(0, 0)
    ELSE IF retrieved_ids = {} THEN returned(0, 0)
    ELSE IF relevant_ids = {} THEN returned(0, 0)
    ELSE divide_both(retrieved_ids \cap relevant_ids, retrieved_ids, relevant_ids)

(***************************************************************************)
(* precision_recall on every pair of sets of document ids up to MaxId: the *)
(* two sets are held in base, the value of the call in ret.                *)
(***************************************************************************)
MaxId == 4

IdSets == SUBSET (1..MaxId)

EvalInit ==
    /\ collection = <<>>
    /\ base \in [retrieved_ids : IdSets, relevant_ids : IdSets]
    /\ ret = no_return

PrecisionRecall ==
    /\ ret.op = "none"
    /\ ret' = [op |-> "precision_recall",
               results |-> precision_recall(base.retrieved_ids, base.relevant_ids)]
    /\ UNCHANGED <<collection, base>>

EvalNext == PrecisionRecall

SpecEval == EvalInit /\ [][EvalNext]_vars

\* the ids that are both retrieved and relevant
Hits == base.retrieved_ids \cap base.relevant_ids

\* value is the number of 1/Scale nearest to a / b
NearestTo(value, a, b) ==
    /\ 2 * (value * b - Scale * a) <= b
    /\ 2 * (Scale * a - value * b) <= b

\* C11: precision/recall.  For every pair of id sets precision_recall
\* raises no division by zero; it returns (0.0, 0.0) when the retrieved set
\* or the relevant set (or both) is empty, and otherwise precision =
\* |retrieved & relevant| / |retrieved| and recall = |retrieved & relevant|
\* / |relevant|, so that precision_recall({1,2},{2,3}) = (0.5, 0.5).
C11_PrecisionRecall ==
    ret.op = "precision_recall" =>
        /\ ~ret.results.raised
        /\ (base.retrieved_ids = {} \/ base.relevant_ids = {})
            => (ret.results.precision = 0 /\ ret.results.recall = 0)
        /\ (base.retrieved_ids # {} /\ base.relevant_ids # {})
            => /\ NearestTo(ret.results.precision, Cardinality(Hits),
                            Cardinality(base.retrieved_ids))
               /\ NearestTo(ret.results.recall, Cardinality(Hits),
                            Cardinality(base.relevant_ids))
        /\ (base.retrieved_ids = {1, 2} /\ base.relevant_ids = {2, 3})
            => (2 * ret.results.precision = Scale /\ 2 * ret.results.recall = Scale)

\* precision and recall differ and neither is 0 or 1: one hit among two
\* retrieved and three relevant ids
C11_Witness ==
    /\ ret.op = "precision_recall"
    /\ Cardinality(Hits) = 1
    /\ Cardinality(base.retrieved_ids) = 2
    /\ Cardinality(base.relevant_ids) = 3
    /\ ret.results.precision > ret.results.recall
    /\ ret.results.recall > 0

(***************************************************************************)
(* stem_term on single tokens: every token of at most MaxTokenLen          *)
(* characters of TokenChars, and the words of the known vectors.  The      *)
(* token is held in base, the value of the call in ret.                    *)
(***************************************************************************)
MaxTokenLen == 3

TokenChars == {"a", "e", "i", "s", "d", "y", "S", "E"}

w_caresses == <<"c","a","r","e","s","s","e","s">>
w_ponies == <<"p","o","n","i","e","s">>
w_feed == <<"f","e","e","d">>
w_plastered == <<"p","l","a","s","t","e","r","e","d">>
w_motoring == <<"m","o","t","o","r","i","n","g">>
w_agreed == <<"a","g","r","e","e","d">>

KnownWords == {w_caresses, w_ponies, w_feed, w_plastered, w_motoring, w_agreed}

Tokens ==
    UNION {[1..n -> TokenChars] : n \in 0..MaxTokenLen} \cup KnownWords

StemInit ==
    /\ collection = <<>>
    /\ base \in [word : Tokens]
    /\ ret = no_return

StemTerm ==
    /\ ret.op = "none"
    /\ ret' = [op |-> "stem_term", results |-> stem_term(base.word)]
    /\ UNCHANGED <<collection, base>>

StemNext == StemTerm

SpecStem == StemInit /\ [][StemNext]_vars

\* C12: short tokens.  For every token x of length 0, 1 or 2, stem_term(x)
\* is x lowercased: the same length, every character that of x or, for an
\* uppercase letter, its lowercase letter; no rule of the cascade is applied.
C12_ShortTokens ==
    (ret.op = "stem_term" /\ Len(base.word) <= 2) =>
        /\ Len(ret.results) = Len(base.word)
        /\ \A i \in 1..Len(base.word) :
            /\ ret.results[i] = lower_char(base.word[i])
            /\ ret.results[i] \notin to_set(UpperChars)

\* a token of two characters with an uppercase letter that step 1a would
\* shorten ("iS") is returned lowercased and whole
C12_Witness ==
    /\ ret.op = "stem_term"
    /\ Len(base.word) = 2
    /\ ret.results # base.word
    /\ Len(ret.results) = 2
    /\ step1a(lower(base.word)) # lower(base.word)

\* C13: known stemming vectors.  After the whole rule cascade stem_term
\* gives caresses -> caress, ponies -> poni, feed -> feed (the measure-0
\* stem before 'eed' blocks eed -> ee and the 'ed' rule is not tried),
\* plastered -> plaster and motoring -> motor.
C13_KnownVectors ==
    ret.op = "stem_term" =>
        /\ base.word = w_caresses => ret.results = <<"c","a","r","e","s","s">>
        /\ base.word = w_ponies => ret.results = <<"p","o","n","i">>
        /\ base.word = w_feed => ret.results = w_feed
        /\ base.word = w_plastered => ret.results = <<"p","l","a","s","t","e","r">>
        /\ base.word = w_motoring => ret.results = <<"m","o","t","o","r">>

\* stem_term has been applied to "feed": 'eed' matched, the stem before it
\* has measure 0, and the word came back whole
C13_Witness ==
    /\ ret.op = "stem_term"
    /\ base.word = w_feed
    /\ endswith(base.word, <<"e","e","d">>)
    /\ measure(drop_last(base.word, 3)) = 0
    /\ ret.results = base.word

\* C14: stem_term("agreed") = "agree": the full cascade, step 5a's removal
\* of a trailing e after step 1b's eed -> ee included, returns "agree".
C14_Agreed ==
    (ret.op = "stem_term" /\ base.word = w_agreed)
        => ret.results = <<"a","g","r","e","e">>

(***************************************************************************)
(* The frequency filter of the earlier version of stopwords.py, whose      *)
(* function has the same name, remove_stopwords_by_frequency, takes        *)
(* common_frequency before rare_frequency, and measures a term by its      *)
(* share of all term occurrences of the reference collection.              *)
(***************************************************************************)
\* term_frequencies[term]: the occurrences of the term in all documents
RECURSIVE term_frequency(_, _)
term_frequency(coll, term) ==
    IF coll = <<>> THEN 0
    ELSE Cardinality({k \in 1..Len(Head(coll).terms) : Head(coll).terms[k] = term})
         + term_frequency(Tail(coll), term)

\* sum(term_frequencies.values())
RECURSIVE total_terms(_)
total_terms(coll) ==
    IF coll = <<>> THEN 0
    ELSE Len(Head(coll).terms) + total_terms(Tail(coll))

term_frequency_stopwords(coll, common_frequency, rare_frequency) ==
    {term \in UNION {to_set(coll[i].terms) : i \in 1..Len(coll)} :
        \/ frac_geq(term_frequency(coll, term), total_terms(coll), common_frequency)
        \/ frac_leq(term_frequency(coll, term), total_terms(coll), rare_frequency)}

\* the earlier function called with its two thresholds in the other order
remove_stopwords_by_term_frequency_swapped(doc, coll, common_frequency, rare_frequency) ==
    IF total_terms(coll) = 0
    THEN [doc EXCEPT !.filtered_terms = <<>>]
    ELSE [doc EXCEPT !.filtered_terms =
            keep_lowered(doc.terms,
                [i \in 1..Len(doc.terms) |->
                    doc.terms[i] \in
                        term_frequency_stopwords(coll, rare_frequency,
                                                 common_frequency)])]

remove_stopwords_by_term_frequency(doc, coll, common_frequency, rare_frequency) ==
    IF total_terms(coll) = 0
    THEN [doc EXCEPT !.filtered_terms = <<>>]
    ELSE [doc EXCEPT !.filtered_terms =
            keep_lowered(doc.terms,
                [i \in 1..Len(doc.terms) |->
                    doc.terms[i] \in
                        term_frequency_stopwords(coll, common_frequency,
                                                 rare_frequency)])]

(***************************************************************************)
(* The filters called on one document and a reference collection the       *)
(* document need not belong to, with terms of either letter case.  The     *)
(* reference collection is collection; base holds the target document and  *)
(* its position in the collection (0: not a member); ret holds the last    *)
(* call.  A filter writes the Document object: a member of the collection  *)
(* is written in the collection as well.                                   *)
(***************************************************************************)
MaxRefDocs == 2

w_The == <<"T","h","e">>

FilterTermLists ==
    { <<w_the, w_cat, w_sat>>,
      <<w_The, w_cat, w_the, w_cat>>,
      <<w_zebra, w_cat>>,
      <<>> }

FilterStopwordSets == { {w_the}, {w_The}, {w_cat, w_sat} }

\* <<rare_frequency, common_frequency>>, each a fraction <<p, q>>
FilterThresholds ==
    { << <<0, 1>>, <<1, 2>> >>,
      << <<1, 4>>, <<1, 1>> >>,
      << <<1, 2>>, <<1, 3>> >> }

FilterInit ==
    /\ ret = no_return
    /\ \E n \in 0..MaxRefDocs :
        \E term_lists \in [1..n -> FilterTermLists] :
            /\ collection = load_documents(term_lists)
            /\ \/ \E i \in 1..n :
                    base = [doc |-> collection[i], member |-> i]
               \/ \E terms \in FilterTermLists :
                    base = [doc |-> new_document(n, terms), member |-> 0]

\* the collection after the target document has been written
written(doc) ==
    IF base.member = 0 THEN collection
    ELSE [collection EXCEPT ![base.member] = doc]

FilterByList ==
    \E stopwords \in FilterStopwordSets :
        LET doc == remove_stopwords_by_list(base.doc, stopwords) IN
        /\ ret.op = "none"
        /\ base' = [base EXCEPT !.doc = doc]
        /\ collection' = written(doc)
        /\ ret' = [op |-> "list", stopwords |-> stopwords]

FilterByFrequency ==
    \E t \in FilterThresholds :
        LET doc == remove_stopwords_by_frequency(base.doc, collection, t[1], t[2]) IN
        /\ ret.op = "none"
        /\ base' = [base EXCEPT !.doc = doc]
        /\ collection' = written(doc)
        /\ ret' = [op |-> "frequency", rare_frequency |-> t[1],
                   common_frequency |-> t[2], before |-> base.doc.filtered_terms]

FilterByTermFrequency ==
    \E t \in FilterThresholds :
        LET doc == remove_stopwords_by_term_frequency(base.doc, collection,
                                                      t[2], t[1]) IN
        /\ ret.op = "none"
        /\ base' = [base EXCEPT !.doc = doc]
        /\ collection' = written(doc)
        /\ ret' = [op |-> "term_frequency", rare_frequency |-> t[1],
                   common_frequency |-> t[2], before |-> base.doc.filtered_terms]

FilterNext ==
    \/ FilterByList
    \/ FilterByFrequency
    \/ FilterByTermFrequency
    \/ TakeResult

SpecFilter == FilterInit /\ [][FilterNext]_vars

(***************************************************************************)
(* What the claims on the filters speak of: the subsequence of a terms     *)
(* list at a set of positions, and the frequencies of a term in the        *)
(* reference collection as fractions, compared on the integers.            *)
(***************************************************************************)
\* result holds, in order and lowercased, the terms at the positions kept
IsKeptLowered(result, terms, kept) ==
    /\ Len(result) = Cardinality(kept)
    /\ \A k \in kept :
        result[Cardinality({j \in kept : j <= k})] = lower(terms[k])

IsLowercase(term) == \A k \in 1..Len(term) : term[k] \notin to_set(UpperChars)

\* the reference documents that hold t at least once
DocumentsWith(t) ==
    {i \in 1..Len(collection) :
        \E k \in 1..Len(collection[i].terms) : collection[i].terms[k] = t}

\* the occurrences of t in the reference collection, repeats included
OccurrencesOf(t) ==
    {p \in UNION {{<<i, k>> : k \in 1..Len(collection[i].terms)} :
                      i \in 1..Len(collection)} :
        collection[p[1]].terms[p[2]] = t}

AllOccurrences ==
    UNION {{<<i, k>> : k \in 1..Len(collection[i].terms)} : i \in 1..Len(collection)}

\* count / total >= f and count / total <= f, for a fraction f = <<p, q>>
AtLeast(count, total, f) == count * f[2] >= f[1] * total

AtMost(count, total, f) == count * f[2] <= f[1] * total

\* C15: list-based filter result.  After remove_stopwords_by_list the
\* document's filtered_terms is exactly the order-preserving subsequence of
\* its terms whose lowercased form is not in the stopword set, each stored
\* lowercased; so it is no longer than terms, every element is lowercase,
\* and terms ["the","cat","sat"] with stopwords {"the"} give ["cat","sat"].
C15_ListFilter ==
    ret.op = "list" =>
        /\ IsKeptLowered(base.doc.filtered_terms, base.doc.terms,
                         {k \in 1..Len(base.doc.terms) :
                             lower(base.doc.terms[k]) \notin ret.stopwords})
        /\ Len(base.doc.filtered_terms) <= Len(base.doc.terms)
        /\ \A i \in 1..Len(base.doc.filtered_terms) :
            IsLowercase(base.doc.filtered_terms[i])
        /\ (base.doc.terms = <<w_the, w_cat, w_sat>> /\ ret.stopwords = {w_the})
            => base.doc.filtered_terms = <<w_cat, w_sat>>

\* a document holding "The" and "the" filtered with {"the"}: both are
\* removed and the two occurrences of "cat" are left
C15_Witness ==
    /\ ret.op = "list"
    /\ ret.stopwords = {w_the}
    /\ base.doc.terms = <<w_The, w_cat, w_the, w_cat>>
    /\ base.doc.filtered_terms = <<w_cat, w_cat>>

\* two stopword sets that are equal once their entries are lowercased
SameIgnoringCase(S, T) == {lower(x) : x \in S} = {lower(x) : x \in T}

\* C16: the list filter reads the stopword set case-insensitively.  For
\* every stopword set S and every set S' that differs from S in the letter
\* case of its entries only, remove_stopwords_by_list leaves the same
\* filtered_terms for S and for S'.
C16_StopwordSetCase ==
    ret.op = "list" =>
        \A other \in FilterStopwordSets :
            SameIgnoringCase(ret.stopwords, other) =>
                remove_stopwords_by_list(base.doc, other).filtered_terms
                    = base.doc.filtered_terms

\* C17: frequency filter, document-frequency mode.  For a non-empty
\* reference collection of N documents and a target document that is one of
\* them, a term t of the document is removed iff (the number of reference
\* documents holding t) / N is >= common_frequency or <= rare_frequency;
\* the other terms are kept in order and multiplicity, lowercased.
C17_DocumentFrequency ==
    (ret.op = "frequency" /\ base.member # 0 /\ Len(collection) > 0) =>
        IsKeptLowered(base.doc.filtered_terms, base.doc.terms,
            {k \in 1..Len(base.doc.terms) :
                ~(\/ AtLeast(Cardinality(DocumentsWith(base.doc.terms[k])),
                             Len(collection), ret.common_frequency)
                  \/ AtMost(Cardinality(DocumentsWith(base.doc.terms[k])),
                            Len(collection), ret.rare_frequency))})

\* a member document loses a term held by every document, its frequency
\* equal to common_frequency, and keeps a term of a lower frequency
C17_Witness ==
    /\ ret.op = "frequency"
    /\ base.member # 0
    /\ \E k \in 1..Len(base.doc.terms) :
        /\ Cardinality(DocumentsWith(base.doc.terms[k])) * ret.common_frequency[2]
            = ret.common_frequency[1] * Len(collection)
        /\ lower(base.doc.terms[k]) \notin to_set(base.doc.filtered_terms)
    /\ Len(base.doc.filtered_terms) > 0

\* C18: frequency filter, collection-term-frequency mode.  For a reference
\* collection with at least one term occurrence and a target document that
\* is a member of it, a term t of the document is removed iff (occurrences
\* of t in all reference documents, repeats counted) / (all term occurrences
\* of the reference collection) is >= common_frequency or <= rare_frequency;
\* the other terms are kept in order, lowercased.
C18_TermFrequency ==
    (ret.op = "term_frequency" /\ base.member # 0 /\ AllOccurrences # {}) =>
        IsKeptLowered(base.doc.filtered_terms, base.doc.terms,
            {k \in 1..Len(base.doc.terms) :
                ~(\/ AtLeast(Cardinality(OccurrencesOf(base.doc.terms[k])),
                             Cardinality(AllOccurrences), ret.common_frequency)
                  \/ AtMost(Cardinality(OccurrencesOf(base.doc.terms[k])),
                            Cardinality(AllOccurrences), ret.rare_frequency))})

\* a member document keeps a term whose share of the documents reaches
\* common_frequency while its share of the occurrences does not, and loses
\* a term that is repeated within a document
C18_Witness ==
    /\ ret.op = "term_frequency"
    /\ base.member # 0
    /\ \E k \in 1..Len(base.doc.terms) :
        /\ AtLeast(Cardinality(DocumentsWith(base.doc.terms[k])),
                   Len(collection), ret.common_frequency)
        /\ lower(base.doc.terms[k]) \in to_set(base.doc.filtered_terms)
    /\ \E k \in 1..Len(base.doc.terms) :
        /\ Cardinality(OccurrencesOf(base.doc.terms[k]))
            > Cardinality(DocumentsWith(base.doc.terms[k]))
        /\ lower(base.doc.terms[k]) \notin to_set(base.doc.filtered_terms)

\* C19: frequency classification for any target document.  After
\* remove_stopwords_by_frequency with a non-empty reference collection and
\* rare >= 0, every term left in filtered_terms has a frequency in the
\* reference collection strictly greater than rare and strictly less than
\* common, also for a target document outside the reference collection
\* holding terms the collection does not hold (frequency 0).
C19_KeptWithinThresholds ==
    /\ (ret.op = "frequency" /\ Len(collection) > 0) =>
        \A i \in 1..Len(base.doc.filtered_terms) :
            /\ ~AtMost(Cardinality(DocumentsWith(base.doc.filtered_terms[i])),
                       Len(collection), ret.rare_frequency)
            /\ ~AtLeast(Cardinality(DocumentsWith(base.doc.filtered_terms[i])),
                        Len(collection), ret.common_frequency)
    /\ (ret.op = "term_frequency" /\ AllOccurrences # {}) =>
        \A i \in 1..Len(base.doc.filtered_terms) :
            /\ ~AtMost(Cardinality(OccurrencesOf(base.doc.filtered_terms[i])),
                       Cardinality(AllOccurrences), ret.rare_frequency)
            /\ ~AtLeast(Cardinality(OccurrencesOf(base.doc.filtered_terms[i])),
                        Cardinality(AllOccurrences), ret.common_frequency)

\* C20: empty reference collection.  For every target document, whatever
\* its terms and its previous filtered_terms, and any thresholds,
\* remove_stopwords_by_frequency against a reference collection of zero
\* documents sets filtered_terms to the empty list, in the
\* document-frequency and in the collection-term-frequency implementation.
C20_EmptyReference ==
    (ret.op \in {"frequency", "term_frequency"} /\ Len(collection) = 0) =>
        base.doc.filtered_terms = <<>>

\* a document with terms and with filtered terms of an earlier list filter
\* is left with no filtered terms by a call with no reference documents
C20_Witness ==
    /\ ret.op = "frequency"
    /\ Len(collection) = 0
    /\ base.doc.terms # <<>>
    /\ ret.before # <<>>
    /\ base.doc.filtered_terms = <<>>

\* a freshly constructed document with the terms of the target document
Fresh == new_document(base.doc.document_id, base.doc.terms)

\* C21: filters overwrite, they do not accumulate.  After any sequence of
\* remove_stopwords_by_list and remove_stopwords_by_frequency calls on one
\* document, its filtered_terms is what the last call alone leaves on a
\* freshly constructed document with the same terms: terms an earlier call
\* removed and the last one does not are present again.
C21_FiltersOverwrite ==
    /\ ret.op = "list" =>
        base.doc.filtered_terms
            = remove_stopwords_by_list(Fresh, ret.stopwords).filtered_terms
    /\ ret.op = "frequency" =>
        base.doc.filtered_terms
            = remove_stopwords_by_frequency(Fresh, collection, ret.rare_frequency,
                                            ret.common_frequency).filtered_terms
    /\ ret.op = "term_frequency" =>
        base.doc.filtered_terms
            = remove_stopwords_by_term_frequency(Fresh, collection,
                                                 ret.common_frequency,
                                                 ret.rare_frequency).filtered_terms

\* a frequency filter after an earlier filter: a term the earlier call had
\* removed is present again, and a term it had kept is gone
C21_Witness ==
    /\ ret.op = "frequency"
    /\ ret.before # <<>>
    /\ \E k \in 1..Len(base.doc.filtered_terms) :
        base.doc.filtered_terms[k] \notin to_set(ret.before)
    /\ \E k \in 1..Len(ret.before) :
        ret.before[k] \notin to_set(base.doc.filtered_terms)

(***************************************************************************)
(* The four mutation entry points called in any order on one document and  *)
(* its reference collection.  The documents carry their raw_text, here the *)
(* words of the text as the loader found them; base also tells whether     *)
(* apply_stemming_filtered has been called on the target document.         *)
(***************************************************************************)
\* Document(document_id, raw_text=..., terms=...)
with_raw_text(doc) ==
    [field \in DOMAIN doc \cup {"raw_text"} |->
        IF field = "raw_text" THEN doc.terms ELSE doc[field]]

DocInit ==
    /\ ret = no_return
    /\ \E n \in 0..MaxRefDocs :
        \E term_lists \in [1..n -> FilterTermLists] :
            /\ collection = [i \in 1..n |->
                                with_raw_text(load_documents(term_lists)[i])]
            /\ \/ \E i \in 1..n :
                    base = [doc |-> collection[i], member |-> i,
                            stemmed_filtered |-> FALSE]
               \/ \E terms \in FilterTermLists :
                    base = [doc |-> with_raw_text(new_document(n, terms)),
                            member |-> 0, stemmed_filtered |-> FALSE]

StemDocument ==
    LET doc == apply_stemming(base.doc) IN
    /\ ret.op = "none"
    /\ base' = [base EXCEPT !.doc = doc]
    /\ collection' = written(doc)
    /\ ret' = [op |-> "stem"]

StemFilteredDocument ==
    LET doc == apply_stemming_filtered(base.doc) IN
    /\ ret.op = "none"
    /\ base' = [base EXCEPT !.doc = doc, !.stemmed_filtered = TRUE]
    /\ collection' = written(doc)
    /\ ret' = [op |-> "stem_filtered", before |-> base.doc.filtered_terms]

DocNext ==
    \/ FilterByList
    \/ FilterByFrequency
    \/ FilterByTermFrequency
    \/ StemDocument
    \/ StemFilteredDocument
    \/ TakeResult

SpecDoc == DocInit /\ [][DocNext]_vars

\* the fields of a document that differ after a step
Changed(before, after) == {field \in DOMAIN before : after[field] # before[field]}

\* the derived field a call is responsible for
WrittenBy(op) ==
    IF op \in {"list", "frequency", "term_frequency"} THEN "filtered_terms"
    ELSE IF op = "stem" THEN "stemmed_terms"
    ELSE "filtered_stemmed_terms"

\* C22: terms is immutable.  No sequence of remove_stopwords_by_list,
\* remove_stopwords_by_frequency, apply_stemming and apply_stemming_filtered
\* changes the terms (content, order, length) or the raw_text of the target
\* document or of any document of the reference collection; each call
\* writes only the one derived field it is responsible for.
C22_TermsImmutable ==
    [][ /\ base'.doc.terms = base.doc.terms
        /\ base'.doc.raw_text = base.doc.raw_text
        /\ Len(collection') = Len(collection)
        /\ \A i \in 1..Len(collection) :
            /\ collection'[i].terms = collection[i].terms
            /\ collection'[i].raw_text = collection[i].raw_text
        /\ ret'.op # "none" =>
            /\ Changed(base.doc, base'.doc) \subseteq {WrittenBy(ret'.op)}
            /\ \A i \in 1..Len(collection) :
                IF i = base.member
                THEN collection'[i] = base'.doc
                ELSE collection'[i] = collection[i]
      ]_vars

\* apply_stemming has just written stems that differ from the terms of a
\* member document whose two other derived fields hold earlier results
C22_Witness ==
    /\ ret.op = "stem"
    /\ base.member # 0
    /\ base.doc.stemmed_terms # base.doc.terms
    /\ base.doc.filtered_terms # <<>>
    /\ base.doc.filtered_stemmed_terms # <<>>
    /\ base.doc.terms = base.doc.raw_text
    /\ collection[base.member] = base.doc

\* C23: derived-view consistency.  Once apply_stemming_filtered has been
\* applied to a document, after any later filter and stemming operations on
\* it the stored filtered_stemmed_terms is the elementwise stem of its
\* current filtered_terms (same length, same order); and called on a
\* document that was never filtered, apply_stemming_filtered stores the
\* empty sequence.
C23_DerivedViewConsistent ==
    /\ base.stemmed_filtered =>
        /\ Len(base.doc.filtered_stemmed_terms) = Len(base.doc.filtered_terms)
        /\ \A k \in 1..Len(base.doc.filtered_terms) :
            base.doc.filtered_stemmed_terms[k] = stem(base.doc.filtered_terms[k])
    /\ (ret.op = "stem_filtered" /\ ret.before = <<>>) =>
        base.doc.filtered_stemmed_terms = <<>>

(***************************************************************************)
(* Loading a collection (collection.py, IRSystemCLI.handle_download_parse).*)
(* What the user types and what the download and the pattern give are the  *)
(* inputs: the url, the two line numbers as texts that int() accepts or    *)
(* not (an empty end text is None), the pattern (empty, not compiling, or  *)
(* compiling), the download's success and line count, and the matches of   *)
(* the pattern, each with its capture groups complete or not and the terms *)
(* of its text.                                                            *)
(***************************************************************************)
Max(a, b) == IF a >= b THEN a ELSE b

Min(a, b) == IF a <= b THEN a ELSE b

\* A match of search_pattern.findall is the tuple of the groups' texts when
\* the pattern has two groups or more (groups = TRUE), and one text when it
\* has one group or none (groups = FALSE).  len(match) is Len(match.value).
\* match[k], 0-based: a group's text, or the one-character string at k
item(match, k) ==
    IF match.groups THEN match.value[k + 1] ELSE <<match.value[k + 1]>>

\* str.replace('\n', ' ')
replace_newlines(s) == [i \in 1..Len(s) |-> IF s[i] = "\n" THEN " " ELSE s[i]]

\* the characters of the class [A-Za-z0-9']
is_term_char(c) ==
    \/ c \in {UpperChars[i] : i \in 1..Len(UpperChars)}
    \/ c \in {LowerChars[i] : i \in 1..Len(LowerChars)}
    \/ c \in {"0", "1", "2", "3", "4", "5", "6", "7", "8", "9", "'"}

\* the length of the longest prefix of s made of term characters
RECURSIVE term_len(_)
term_len(s) ==
    IF s = <<>> \/ ~is_term_char(Head(s)) THEN 0 ELSE 1 + term_len(Tail(s))

\* re.findall(r"[A-Za-z0-9']+", s): the maximal runs of term characters
RECURSIVE findall_terms(_)
findall_terms(s) ==
    IF s = <<>> THEN <<>>
    ELSE LET n == term_len(s)
         IN  IF n = 0 THEN findall_terms(Tail(s))
             ELSE <<SubSeq(s, 1, n)>> \o findall_terms(SubSeq(s, n + 1, Len(s)))

\* the terms of the document built from one match
match_terms(match) ==
    LET story_content == strip(item(match, 1))
        clean_raw_text == strip(replace_newlines(story_content))
    IN  findall_terms(lower(clean_raw_text))

\* the terms of the documents built, in order: a match with len(match) < 2
\* is skipped by 'continue'
RECURSIVE complete_matches(_)
complete_matches(matches) ==
    IF matches = <<>> THEN <<>>
    ELSE IF Len(Head(matches).value) >= 2
         THEN <<match_terms(Head(matches))>> \o complete_matches(Tail(matches))
         ELSE complete_matches(Tail(matches))

load_documents_from_url(downloaded, line_count, start_line, end_line, matches) ==
    IF ~downloaded THEN <<>>
    ELSE LET last == IF end_line.none THEN line_count ELSE end_line.value
             first == Max(0, start_line)
             stop == Min(line_count, last)
         IN  IF first >= stop THEN <<>>
             ELSE load_documents(complete_matches(matches))

\* self.collection after handle_download_parse with a collection that is
\* assigned whatever was loaded
handle_download_parse_assigning(coll, input) ==
    IF strip(input.url) = <<>> THEN coll
    ELSE IF ~input.start.valid THEN coll
    ELSE IF ~input.end.none /\ ~input.end.valid THEN coll
    ELSE IF input.pattern = "empty" THEN coll
    ELSE IF input.pattern = "invalid" THEN coll
    ELSE load_documents_from_url(input.downloaded, input.line_count,
                                 input.start.value, input.end, input.matches)

\* self.collection after handle_download_parse
handle_download_parse(coll, input) ==
    IF strip(input.url) = <<>> THEN coll
    ELSE IF ~input.start.valid THEN coll
    ELSE IF ~input.end.none /\ ~input.end.valid THEN coll
    ELSE IF input.pattern = "empty" THEN coll
    ELSE IF input.pattern = "invalid" THEN coll
    ELSE LET documents ==
                load_documents_from_url(input.downloaded, input.line_count,
                                        input.start.value, input.end, input.matches)
         IN  IF documents # <<>> THEN documents ELSE coll

\* the lines of the downloaded text
LineCount == 4

LineTexts ==
    { [none |-> TRUE, valid |-> FALSE, value |-> 0],
      [none |-> FALSE, valid |-> FALSE, value |-> 0] }
    \cup {[none |-> FALSE, valid |-> TRUE, value |-> n] : n \in {-1, 0, 2, 6}}

\* the lists search_pattern.findall returns: for a pattern of two groups,
\* pairs of a title and a text; for a pattern of one group, texts
MatchLists ==
    { <<>>,
      << [groups |-> FALSE, value |-> <<"c">>] >>,
      << [groups |-> FALSE, value |-> w_cat] >>,
      << [groups |-> FALSE, value |-> <<"c">>],
         [groups |-> FALSE, value |-> <<>>],
         [groups |-> FALSE, value |-> w_dog \o <<" ">> \o w_ran] >>,
      << [groups |-> TRUE,
          value |-> << <<"T", "1">>, w_The \o <<" ">> \o w_dog \o <<"\n">> \o w_ran >>] >>,
      << [groups |-> TRUE, value |-> << <<>>, <<" ">> >>],
         [groups |-> TRUE,
          value |-> << <<"T", "2">>,
                       <<" ">> \o w_the \o <<",", " ">> \o <<"C", "A", "T", "'", "s">>
                       \o <<"\n">> >>] >> }

LoadInputs ==
    [url : {<<>>, <<" ">>, <<"u", " ">>},
     start : {t \in LineTexts : ~t.none},
     end : LineTexts,
     pattern : {"empty", "invalid", "valid"},
     downloaded : BOOLEAN,
     line_count : {LineCount},
     matches : MatchLists]

LoadInit ==
    /\ ret = no_return
    /\ base = no_base
    /\ \E n \in 0..MaxRefDocs :
        \E term_lists \in [1..n -> TermLists], preparation \in {"none", "filter_stem"} :
            collection = prepare(load_documents(term_lists), preparation)

HandleDownloadParse ==
    \E input \in LoadInputs :
        /\ ret.op = "none"
        /\ collection' = handle_download_parse(collection, input)
        /\ ret' = [op |-> "download_parse", input |-> input]
        /\ base' = [collection |-> collection]

\* the session goes on with the collection it has
LoadDone ==
    /\ ret.op # "none"
    /\ ret' = no_return
    /\ base' = no_base
    /\ UNCHANGED collection

LoadNext == HandleDownloadParse \/ LoadDone

SpecLoad == LoadInit /\ [][LoadNext]_vars

\* the inputs with which nothing is loaded
InputRaises(input) ==
    \/ ~input.start.valid
    \/ ~input.end.none /\ ~input.end.valid
    \/ input.pattern = "invalid"

LineRangeInvalid(input) ==
    LET last == IF input.end.none \/ input.end.value > input.line_count
                THEN input.line_count ELSE input.end.value
        first == IF input.start.value < 0 THEN 0 ELSE input.start.value
    IN  first >= last

NothingMatched(input) ==
    \A k \in 1..Len(input.matches) : Len(input.matches[k].value) < 2

LoadFails(input) ==
    \/ \A k \in 1..Len(input.url) : is_space(input.url[k])
    \/ input.pattern = "empty"
    \/ InputRaises(input)
    \/ ~input.downloaded
    \/ LineRangeInvalid(input)
    \/ NothingMatched(input)

\* C24: a failed load leaves the collection untouched.  Whenever the
\* download fails, the line range is invalid, the pattern matches nothing
\* or input parsing raises in handle_download_parse, self.collection is
\* afterwards the same list of documents with the same fields as before;
\* the collection is replaced only when a non-empty list was produced.
C24_FailedLoad ==
    ret.op = "download_parse" =>
        /\ LoadFails(ret.input) => collection = base.collection
        /\ collection # base.collection =>
            /\ Len(collection) > 0
            /\ \A i \in 1..Len(collection) :
                /\ collection[i].document_id = i - 1
                /\ collection[i].filtered_terms = <<>>

\* a download that succeeds with matches but an invalid line range leaves a
\* collection of filtered and stemmed documents as it was
C24_Witness ==
    /\ ret.op = "download_parse"
    /\ ret.input.downloaded
    /\ ret.input.pattern = "valid"
    /\ ~InputRaises(ret.input)
    /\ ~NothingMatched(ret.input)
    /\ LineRangeInvalid(ret.input)
    /\ Len(collection) > 0
    /\ collection[1].filtered_stemmed_terms # <<>>
    /\ collection = base.collection

(***************************************************************************)
(* The searches on collections with every kind of stored view.             *)
(***************************************************************************)
SearchInit ==
    /\ ret = no_return
    /\ base = no_base
    /\ \E n \in 0..MaxRefDocs :
        \E term_lists \in [1..n -> TermLists], preparation \in Preparations :
            collection = prepare(load_documents(term_lists), preparation)

SearchBoolean ==
    \E query \in Queries, stopword_filtered \in BOOLEAN, stemmed \in BOOLEAN :
        /\ ret.op = "none"
        /\ ret' = [op |-> "boolean", query |-> query,
                   stopword_filtered |-> stopword_filtered, stemmed |-> stemmed,
                   results |-> linear_boolean_search(query, collection,
                                                     stopword_filtered, stemmed),
                   calls |-> 1]
        /\ base' = [no_base EXCEPT !.collection = collection]
        /\ UNCHANGED collection

SearchVectorSpace ==
    \E query \in Queries, stopword_filtered \in BOOLEAN, stemmed \in BOOLEAN :
        /\ ret.op = "none"
        /\ ret' = [op |-> "vsm", query |-> query,
                   stopword_filtered |-> stopword_filtered, stemmed |-> stemmed,
                   results |-> vector_space_search(query, collection,
                                                   stopword_filtered, stemmed),
                   calls |-> 1]
        /\ base' = [no_base EXCEPT !.collection = collection]
        /\ UNCHANGED collection

SearchDone ==
    /\ ret.op # "none"
    /\ ret' = no_return
    /\ base' = no_base
    /\ UNCHANGED collection

SearchNext == SearchBoolean \/ SearchVectorSpace \/ SearchDone

SpecSearch == SearchInit /\ [][SearchNext]_vars

\* the query term t is in the selected view of every document
InEveryDocument(t) == Df(Looked(t, ret.stemmed)) = Len(collection)

\* C28: a query term that occurs in every document contributes nothing in
\* VSM.  If the selected view of every document holds query term t, t adds
\* exactly 0 to every score (idf = ln(N/N) = 0); for a collection of one
\* document vector_space_search returns score 0 for every query; and every
\* score returned is >= 0.
C28_EverywhereTerm ==
    ret.op = "vsm" =>
        /\ \A i \in 1..Len(ret.results) : ret.results[i][1] >= 0
        /\ Len(collection) = 1 => ret.results[1][1] = 0
        /\ QueryTerms(ret.query) # {} =>
            \A i \in 1..Len(ret.results) :
                ret.results[i][1] =
                    FormulaScore(ret.query,
                                 {a \in TokenStarts(ret.query) :
                                     ~InEveryDocument(TokenAt(ret.query, a))},
                                 i)
        /\ (\A t \in QueryTerms(ret.query) : InEveryDocument(t)) =>
            \A i \in 1..Len(ret.results) : ret.results[i][1] = 0

\* of two query terms one is in every document and the other is not: a
\* document holding both scores what the other term alone gives it
C28_Witness ==
    /\ ret.op = "vsm"
    /\ Len(collection) >= 2
    /\ \E t, u \in QueryTerms(ret.query) :
        /\ InEveryDocument(t)
        /\ ~InEveryDocument(u)
        /\ \E i \in 1..Len(ret.results) :
            /\ Tf(Looked(t, ret.stemmed), i) > 0
            /\ Tf(Looked(u, ret.stemmed), i) > 0
            /\ ret.results[i][1] = Weight(Looked(u, ret.stemmed), i)
            /\ ret.results[i][1] > 0

(***************************************************************************)
(* stem_term on words built from a beginning and an ending that a rule of  *)
(* the cascade looks for.  The call is recorded with the value of word     *)
(* before and after step 2; ran tells whether the cascade was entered.     *)
(***************************************************************************)
Beginnings ==
    { <<>>, <<"r">>, <<"n">>, <<"r","a">>, <<"r","e","l">>, <<"o","p","e","r">>,
      <<"c","o","n","d","i">>, <<"h","o","p">>, <<"s","i","z">>,
      <<"c","o","n","f","l">>, <<"f","i","z","z">>, <<"t","r","o","u","b","l">> }

Endings ==
    {step2_rules[k][1] : k \in 1..Len(step2_rules)}
    \cup {step3_rules[k][1] : k \in 1..Len(step3_rules)}
    \cup { <<>>, <<"e","d">>, <<"i","n","g">>, <<"e","e","d">>, <<"a","t","e","d">>,
           <<"i","e","s">>, <<"s","s","e","s">>, <<"s">>, <<"y">>, <<"e">>,
           <<"l","l">>, <<"e","m","e","n","t">>, <<"i","o","n">>,
           <<"a","t","i","o","n","a","l","l","y">> }

Words == {beginning \o ending : beginning \in Beginnings, ending \in Endings}

CascadeInit ==
    /\ collection = <<>>
    /\ base \in [word : Words]
    /\ ret = no_return

\* the value of word when step 2 begins
before_step2(word) == step1c(step1b(step1a(lower(word))))

StemWord ==
    /\ ret.op = "none"
    /\ ret' = [op |-> "stem_term",
               ran |-> Len(base.word) > 2,
               before_step2 |-> before_step2(base.word),
               after_step2 |-> step2(before_step2(base.word)),
               results |-> stem_term(base.word)]
    /\ UNCHANGED <<collection, base>>

CascadeNext == StemWord

SpecCascade == CascadeInit /\ [][CascadeNext]_vars

\* the places in the priority list of step 2 whose suffix the word ends with
Step2Matches(word) ==
    {k \in 1..Len(step2_rules) : endswith(word, step2_rules[k][1])}

FirstOf(places) == CHOOSE k \in places : \A j \in places : k <= j

\* C26: step 2 applies at most one substitution, chosen by first match in
\* the fixed priority list.  The first suffix of the list that the word ends
\* with is the only candidate: it is replaced iff the measure of the stem
\* before it is > 0, and when that measure is 0 the word passes step 2
\* unchanged, no later suffix of the list being tried.
C26_Step2FirstMatch ==
    (ret.op = "stem_term" /\ ret.ran) =>
        LET word == ret.before_step2
            places == Step2Matches(word)
        IN  IF places = {} THEN ret.after_step2 = word
            ELSE LET rule == step2_rules[FirstOf(places)]
                     before == SubSeq(word, 1, Len(word) - Len(rule[1]))
                 IN  IF measure(before) > 0
                     THEN ret.after_step2 = before \o rule[2]
                     ELSE ret.after_step2 = word

\* a word ending in 'ization' whose stem has measure 0 passes step 2
\* unchanged although the later suffix 'ation' follows a stem of measure 1
C26_Witness ==
    /\ ret.op = "stem_term"
    /\ ret.ran
    /\ Cardinality(Step2Matches(ret.before_step2)) = 2
    /\ \E late \in Step2Matches(ret.before_step2) :
        LET early == FirstOf(Step2Matches(ret.before_step2)) IN
        /\ late > early
        /\ measure(drop_last(ret.before_step2, Len(step2_rules[early][1]))) = 0
        /\ measure(drop_last(ret.before_step2, Len(step2_rules[late][1]))) > 0
    /\ ret.after_step2 = ret.before_step2

\* C27: stemming never lengthens or empties a word.  For every word w of
\* lowercase letters with len(w) >= 1, 1 <= len(stem_term(w)) <= len(w),
\* although steps 1b and 2 can append characters (the 'e' fix-up,
\* 'enci' -> 'ence', 'abli' -> 'able').
C27_LengthBounds ==
    (ret.op = "stem_term" /\ Len(base.word) >= 1) =>
        /\ Len(ret.results) >= 1
        /\ Len(ret.results) <= Len(base.word)

\* 'ing' was removed and the fix-up of step 1b appended an e ("hoping"
\* gives "hope"): the stem is shorter than the word all the same
C27_Witness ==
    /\ ret.op = "stem_term"
    /\ endswith(base.word, <<"i","n","g">>)
    /\ step1b(step1a(base.word)) = drop_last(base.word, 3) \o <<"e">>
    /\ Len(ret.results) = Len(base.word) - 2

(***************************************************************************)
(* A collection filtered against itself, one document after another        *)
(* (IRSystemCLI.handle_stopwords_frequency).  The handler takes the        *)
(* documents in the order of the list; here any document not yet filtered  *)
(* may be next.  base holds the collection as it was, the thresholds, the  *)
(* version of the filter, and the documents filtered so far, in order.     *)
(***************************************************************************)
\* one call of the loop body, of either version of the filter
self_filter(coll, i, version, thresholds) ==
    IF version = "frequency"
    THEN remove_stopwords_by_frequency(coll[i], coll, thresholds[1], thresholds[2])
    ELSE remove_stopwords_by_term_frequency(coll[i], coll, thresholds[2],
                                            thresholds[1])

\* for doc in self.collection: remove_stopwords_by_frequency(doc, self.collection, ...)
RECURSIVE handle_stopwords_frequency(_, _, _, _)
handle_stopwords_frequency(coll, i, version, thresholds) ==
    IF i > Len(coll) THEN coll
    ELSE handle_stopwords_frequency(
            [coll EXCEPT ![i] = self_filter(coll, i, version, thresholds)],
            i + 1, version, thresholds)

\* the checks of handle_stopwords_frequency on the typed thresholds
\* <<rare, common>>: both between 0.0 and 1.0, and rare below common
thresholds_accepted(t) ==
    /\ 0 <= t[1][1] /\ t[1][1] <= t[1][2]
    /\ 0 <= t[2][1] /\ t[2][1] <= t[2][2]
    /\ t[1][1] * t[2][2] < t[2][1] * t[1][2]

\* the thresholds a user types, refused ones among them
TypedThresholds == FilterThresholds \cup { << <<1, 3>>, <<2, 3>> >> }

\* the handler is at its loop: the collection is not empty and the typed
\* thresholds passed its checks
OrderInit ==
    /\ ret = no_return
    /\ \E n \in 1..MaxDocs :
        \E term_lists \in [1..n -> TermLists],
           thresholds \in {t \in TypedThresholds : thresholds_accepted(t)},
           version \in {"frequency", "term_frequency"} :
            /\ collection = load_documents(term_lists)
            /\ base = [collection |-> collection, thresholds |-> thresholds,
                       version |-> version, order |-> <<>>]

FilterNextDocument ==
    \E i \in 1..Len(collection) :
        /\ \A k \in 1..Len(base.order) : base.order[k] # i
        /\ collection' = [collection EXCEPT
                            ![i] = self_filter(collection, i, base.version,
                                               base.thresholds)]
        /\ base' = [base EXCEPT !.order = Append(base.order, i)]
        /\ ret' = [op |-> base.version, doc |-> i]

OrderNext == FilterNextDocument

SpecOrder == OrderInit /\ [][OrderNext]_vars

\* C29: self-filtering is order-independent.  When every document of a
\* collection is frequency-filtered against that same collection one after
\* another, the final filtered_terms of every document is the same for
\* every processing order: the statistics come from terms only, never from
\* the filtered_terms already written for earlier documents.
C29_OrderIndependent ==
    Len(base.order) = Len(collection) =>
        collection = handle_stopwords_frequency(base.collection, 1, base.version,
                                                base.thresholds)

\* three documents were filtered last to first: one filtered early lost a
\* term that a document filtered after it holds, and that later document
\* was left with filtered terms
C29_Witness ==
    /\ base.order = <<3, 2, 1>>
    /\ \E i, j \in 1..3 :
        /\ i > j
        /\ \E k \in 1..Len(collection[i].terms) :
            /\ collection[i].terms[k] \notin to_set(collection[i].filtered_terms)
            /\ collection[i].terms[k] \in to_set(collection[j].terms)
        /\ collection[j].filtered_terms # <<>>


(***************************************************************************)
(* The earlier single-term Boolean search (the retrieval.py of the second  *)
(* assignment) next to the search of the third assignment.                 *)
(***************************************************************************)
\* mutant: the search term is lowercased but not stripped
linear_boolean_search_p2_unstripped(term, coll, stopword_filtered) ==
    LET search_term == lower(term)
    IN  [i \in 1..Len(coll) |->
            LET lowercase_terms ==
                    map_lower(IF stopword_filtered THEN coll[i].filtered_terms
                                                   ELSE coll[i].terms)
            IN  IF search_term \in to_set(lowercase_terms)
                THEN <<1, i>> ELSE <<0, i>>]

\* linear_boolean_search(term, collection, stopword_filtered) of the second
\* assignment: search_term = term.lower().strip(), one pair per document
linear_boolean_search_p2(term, coll, stopword_filtered) ==
    LET search_term == strip(lower(term))
    IN  [i \in 1..Len(coll) |->
            LET searched == IF stopword_filtered
                            THEN coll[i].filtered_terms
                            ELSE coll[i].terms
                lowercase_terms == map_lower(searched)
            IN  IF search_term \in to_set(lowercase_terms)
                THEN <<1, i>> ELSE <<0, i>>]

\* the query strings an evaluation script passes to both searches
CompatQueries ==
    { <<>>,
      <<" ">>,
      <<"\t", " ", "\n">>,
      w_cat,
      w_zebra,
      <<" ">> \o <<"C","a","t">> \o <<" ", " ">>,
      <<"T","H","E">> \o <<"\n">>,
      <<"\t">> \o w_dog,
      <<"\f">> \o <<"D","o","g">> \o <<"\r">>,
      w_cat \o <<" ">> \o w_dog,
      w_cat \o <<"\r">> \o w_dog,
      w_the \o <<" ", " ">> \o w_the }

\* collections the loader built, unfiltered or with filtered terms written
CompatInit ==
    /\ ret = no_return
    /\ base = no_base
    /\ \E n \in 0..MaxRefDocs :
        \E term_lists \in [1..n -> TermLists], preparation \in Preparations :
            collection = prepare(load_documents(term_lists), preparation)

\* the same query is given to the unstemmed search of the third assignment
\* (ret) and to the search of the second assignment (base)
SearchBothVersions ==
    \E query \in CompatQueries, stopword_filtered \in BOOLEAN :
        /\ ret.op = "none"
        /\ ret' = [op |-> "compat", query |-> query,
                   stopword_filtered |-> stopword_filtered, stemmed |-> FALSE,
                   results |-> linear_boolean_search(query, collection,
                                                     stopword_filtered, FALSE)]
        /\ base' = [no_base EXCEPT
                        !.results = linear_boolean_search_p2(query, collection,
                                                             stopword_filtered)]
        /\ UNCHANGED collection

CompatNext == SearchBothVersions \/ SearchDone

SpecCompat == CompatInit /\ [][CompatNext]_vars

\* no whitespace stands between two non-whitespace characters of the query
SingleToken(query) ==
    ~ \E i, j, k \in 1..Len(query) :
        /\ i < j /\ j < k
        /\ ~ is_space(query[i]) /\ is_space(query[j]) /\ ~ is_space(query[k])

\* C30: backward compatibility of Boolean search.  For every collection,
\* every stopword_filtered flag and every query that is empty, blank or one
\* token with any padding, the unstemmed linear_boolean_search returns the
\* same list of (score, document) pairs as the earlier single-term search.
C30_BackwardCompatible ==
    (ret.op = "compat" /\ SingleToken(ret.query)) => ret.results = base.results

\* a padded, capitalised single token was searched in the filtered terms of
\* two documents: both versions scored one document 1 and the other 0
C30_Witness ==
    /\ ret.op = "compat"
    /\ SingleToken(ret.query)
    /\ ret.query # strip(lower(ret.query))
    /\ strip(ret.query) # <<>>
    /\ ret.stopword_filtered
    /\ Len(collection) = 2
    /\ \E i \in 1..2 : collection[i].filtered_terms # collection[i].terms
    /\ ret.results = base.results
    /\ \E i, j \in 1..2 : ret.results[i][1] = 1 /\ base.results[j][1] = 0

(***************************************************************************)
(* The two searches statement by statement, as calls that are handed       *)
(* Document objects.  ret is the frame of the running call: its arguments, *)
(* its local names (query_terms, results, the index) and, once it has      *)
(* returned, the list it returned in out.  collection holds the objects    *)
(* the caller passed, which every read of the scan goes through.  base     *)
(* holds a copy of the documents taken before the first call and the list  *)
(* the first call returned.                                                *)
(***************************************************************************)
\* doc.stemmed_terms, doc.filtered_terms or doc.filtered_stemmed_terms, read
\* as an attribute or called when callable: the stored list is returned and
\* the document stays as it is
read_view(doc, name) ==
    [value |-> IF name = "filtered_terms" THEN doc.filtered_terms
               ELSE IF name = "stemmed_terms" THEN doc.stemmed_terms
               ELSE doc.filtered_stemmed_terms,
     doc |-> doc]

\* a scan that keeps the view it stemmed on the fly in the document
select_terms_storing(doc, stopword_filtered, stemmed) ==
    LET stems == terms_to_search(doc, stopword_filtered, stemmed)
    IN  [terms |-> stems,
         doc |-> IF stemmed /\ stopword_filtered
                 THEN [doc EXCEPT !.filtered_stemmed_terms = stems]
                 ELSE IF stemmed THEN [doc EXCEPT !.stemmed_terms = stems]
                 ELSE doc]

\* the choice of the terms list of one document, the same statements in
\* both searches: the list bound to the local name, and the document as
\* the reads leave it
select_terms(doc, stopword_filtered, stemmed) ==
    IF stemmed /\ stopword_filtered
    THEN LET stored == read_view(doc, "filtered_stemmed_terms")
         IN  IF stored.value # <<>>
             THEN [terms |-> stored.value, doc |-> stored.doc]
             ELSE LET filtered == read_view(stored.doc, "filtered_terms")
                  IN  [terms |-> IF filtered.value # <<>>
                                 THEN stem_all(filtered.value) ELSE <<>>,
                       doc |-> filtered.doc]
    ELSE IF stemmed
    THEN LET stored == read_view(doc, "stemmed_terms")
         IN  IF stored.value # <<>>
             THEN [terms |-> stored.value, doc |-> stored.doc]
             ELSE [terms |-> stem_all(stored.doc.terms), doc |-> stored.doc]
    ELSE IF stopword_filtered
    THEN LET filtered == read_view(doc, "filtered_terms")
         IN  [terms |-> filtered.value, doc |-> filtered.doc]
    ELSE [terms |-> doc.terms, doc |-> doc]

\* inverted_index[term] of the index a call has built: an entry of the
\* index is the document_id and the lowercased terms of one document
index_postings(index, term) ==
    SelectSeq([k \in 1..Len(index) |->
                  <<index[k].document_id, term_count(index[k].terms, term)>>],
              has_posting)

\* doc_scores[doc_id] after the loop over query_terms, from that index
RECURSIVE index_score(_, _, _, _)
index_score(query_terms, index, total_docs, doc_id) ==
    IF query_terms = <<>> THEN 0
    ELSE LET postings == index_postings(index, Head(query_terms))
             idf == idf_of(total_docs, doc_frequency(postings))
         IN  (IF postings = <<>> THEN 0
              ELSE postings_score(postings, idf, doc_id))
             + index_score(Tail(query_terms), index, total_docs, doc_id)

no_frame ==
    [op |-> "none", query |-> <<>>, stopword_filtered |-> FALSE,
     stemmed |-> FALSE, pc |-> "none", query_terms |-> <<>>, position |-> 0,
     results |-> <<>>, index |-> <<>>, out |-> <<>>, calls |-> 0]

\* the frame of a call at its first statement after the query was parsed
\* and the early returns were taken
entered(op, query, coll, stopword_filtered, stemmed, calls) ==
    LET parsed == parse_query(query)
        frame == [no_frame EXCEPT !.op = op, !.query = query,
                                  !.stopword_filtered = stopword_filtered,
                                  !.stemmed = stemmed, !.calls = calls]
    IN  IF op = "vsm" /\ coll = <<>>
        THEN [frame EXCEPT !.pc = "returned"]
        ELSE IF parsed = <<>>
        THEN [frame EXCEPT !.pc = "returned",
                           !.out = [i \in 1..Len(coll) |-> <<0, i>>]]
        ELSE [frame EXCEPT !.pc = "scan",
                           !.query_terms = IF stemmed THEN stem_all(parsed)
                                           ELSE parsed]

ScanInit ==
    /\ ret = no_frame
    /\ base = no_base
    /\ \E n \in 0..MaxRefDocs :
        \E term_lists \in [1..n -> TermLists], preparation \in Preparations :
            collection = prepare(load_documents(term_lists), preparation)

\* linear_boolean_search or vector_space_search is called
CallSearch ==
    \E op \in {"boolean", "vsm"}, query \in Queries,
       stopword_filtered \in BOOLEAN, stemmed \in BOOLEAN :
        /\ ret.op = "none"
        /\ ret' = entered(op, query, collection, stopword_filtered, stemmed, 1)
        /\ base' = [no_base EXCEPT !.collection = collection]
        /\ UNCHANGED collection

\* one round of 'for doc in collection' of linear_boolean_search
ScanDocument ==
    /\ ret.op = "boolean"
    /\ ret.pc = "scan"
    /\ ret.position < Len(collection)
    /\ LET i == ret.position + 1
           selected == select_terms(collection[i], ret.stopword_filtered,
                                    ret.stemmed)
           lowercase_terms_set == to_set(map_lower(selected.terms))
           all_found == \A k \in 1..Len(ret.query_terms) :
                            ret.query_terms[k] \in lowercase_terms_set
       IN  /\ collection' = [collection EXCEPT ![i] = selected.doc]
           /\ ret' = [ret EXCEPT
                        !.position = i,
                        !.results = Append(ret.results,
                                           IF all_found THEN <<1, i>> ELSE <<0, i>>)]
    /\ UNCHANGED base

\* one round of the index-building loop of vector_space_search
IndexDocument ==
    /\ ret.op = "vsm"
    /\ ret.pc = "scan"
    /\ ret.position < Len(collection)
    /\ LET i == ret.position + 1
           selected == select_terms(collection[i], ret.stopword_filtered,
                                    ret.stemmed)
       IN  /\ collection' = [collection EXCEPT ![i] = selected.doc]
           /\ ret' = [ret EXCEPT
                        !.position = i,
                        !.index = Append(ret.index,
                                         [document_id |-> selected.doc.document_id,
                                          terms |-> map_lower(selected.terms)])]
    /\ UNCHANGED base

\* the statements after the loop, up to the return
ReturnResults ==
    /\ ret.pc = "scan"
    /\ ret.position = Len(collection)
    /\ ret' = [ret EXCEPT
                !.pc = "returned",
                !.out = IF ret.op = "boolean"
                        THEN boolean_return(ret.results, ret.stemmed)
                        ELSE [i \in 1..Len(collection) |->
                                <<index_score(ret.query_terms, ret.index,
                                              Len(collection),
                                              collection[i].document_id), i>>]]
    /\ UNCHANGED <<collection, base>>

\* the identical call once more, on the objects the first call was handed
CallAgain ==
    /\ ret.pc = "returned"
    /\ ret.calls = 1
    /\ ret' = entered(ret.op, ret.query, collection, ret.stopword_filtered,
                      ret.stemmed, 2)
    /\ base' = [base EXCEPT !.results = ret.out]
    /\ UNCHANGED collection

\* the caller drops the returned list
ScanDone ==
    /\ ret.pc = "returned"
    /\ ret' = no_frame
    /\ base' = no_base
    /\ UNCHANGED collection

ScanNext ==
    CallSearch \/ ScanDocument \/ IndexDocument \/ ReturnResults \/ CallAgain
    \/ ScanDone

SpecScan == ScanInit /\ [][ScanNext]_vars

\* C25: retrieval is read-only and stateless.  At every statement of
\* linear_boolean_search and of vector_space_search every field of every
\* document (terms, filtered_terms, stemmed_terms, filtered_stemmed_terms)
\* is what it was before the call, also when a view was stemmed on the fly
\* because the stored stemmed view is empty; and the list an identical
\* second call returns is the list the first call returned.
C25_ReadOnly ==
    ret.op \in {"boolean", "vsm"} =>
        /\ Len(collection) = Len(base.collection)
        /\ \A i \in 1..Len(collection) :
            /\ collection[i].terms = base.collection[i].terms
            /\ collection[i].filtered_terms = base.collection[i].filtered_terms
            /\ collection[i].stemmed_terms = base.collection[i].stemmed_terms
            /\ collection[i].filtered_stemmed_terms
                = base.collection[i].filtered_stemmed_terms
        /\ (ret.calls = 2 /\ ret.pc = "returned") => ret.out = base.results

\* a stemmed search was made twice and has returned: a document without a
\* stored stemmed view was stemmed on the fly and matched, one of its terms
\* differs from its stem, and its stored views are still empty
C25_Witness ==
    /\ ret.op \in {"boolean", "vsm"}
    /\ ret.calls = 2
    /\ ret.pc = "returned"
    /\ ret.stemmed
    /\ \E k \in 1..Len(ret.out) :
        LET i == ret.out[k][2] IN
        /\ ret.out[k][1] > 0
        /\ collection[i].stemmed_terms = <<>>
        /\ collection[i].filtered_stemmed_terms = <<>>
        /\ \E j \in 1..Len(collection[i].terms) :
            stem(collection[i].terms[j]) # collection[i].terms[j]

\* the list a call returns statement by statement is the list of the search
\* taken as one function of the documents handed to it
ScanAgreesWithSearch ==
    ret.pc = "returned" =>
        ret.out = IF ret.op = "boolean"
                  THEN linear_boolean_search(ret.query, base.collection,
                                             ret.stopword_filtered, ret.stemmed)
                  ELSE vector_space_search(ret.query, base.collection,
                                           ret.stopword_filtered, ret.stemmed)

=============================================================================
